---- MODULE Spec2Model ----
(***************************************************************************)
(* A model of the audioIO streaming engine: the reach-back history deques, *)
(* the selection of the algorithm wrapper, the twelve wrappers with their  *)
(* sample-format conversions, and FileToFileEngine.process()/flush().      *)
(*                                                                         *)
(* Sample values.  Python numbers are modelled exactly as rationals        *)
(*     n / (2^e * m)     with m odd,                                       *)
(* carried in a record [t, n, e, m]; t is "i" for a Python int and "f" for *)
(* a Python float.  Python lists are objects: a buffer lives in `heap`     *)
(* under an identity, and in-place updates change the heap entry.          *)
(***************************************************************************)
EXTENDS Integers, Sequences, FiniteSets, TLC

\* ------------------------------------------------------------------ bounds
\* base_io.SAMPLES_PER_BUFFER is 1024 in the program; the model runs the same
\* code with small buffers so that buffer boundaries are crossed.
SAMPLES_PER_BUFFER == 2
\* largest number of sample blocks in the input file's data chunk
MaxBlocks == 4
\* largest configured options[PLUGIN_REACH_BACK]
MaxReachBack == 2

\* ------------------------------------------------------ program constants
FLOAT == "float"
PCM == "PCM"
BYTE_SIZE == 8
INT8_SIZE == 1
INT16_SIZE == 2
FLOAT_SIZE == 4
DOUBLE_SIZE == 8
\* the bit depth wrapper_fpf hands to float_to_pcm / clip_pcm / pcm_to_float
FPF_BIT_DEPTH == 32

\* ------------------------------------------------------------- arithmetic
RECURSIVE GCD(_, _)
GCD(a, b) == IF b = 0 THEN a ELSE GCD(b, a % b)

Abs(x) == IF x < 0 THEN -x ELSE x

\* 2^k, for 0 <= k <= 30
RECURSIVE Pow2(_)
Pow2(k) == IF k = 0 THEN 1 ELSE 2 * Pow2(k - 1)

\* 2^k - 1, for 0 <= k <= 31 (no intermediate value exceeds the result)
RECURSIVE Pow2m1(_)
Pow2m1(k) == IF k = 0 THEN 0 ELSE 2 * Pow2m1(k - 1) + 1

\* a Python int
IntV(x) == [t |-> "i", n |-> x, e |-> 0, m |-> 1]

\* the rational n / (2^e * m) in lowest terms
RECURSIVE StripTwos(_, _)
StripTwos(n, e) ==
    IF e > 0 /\ n % 2 = 0 /\ n # 0 THEN StripTwos(n \div 2, e - 1) ELSE <<n, e>>

\* a Python float with the value n / (2^e * m)
FloatV(n, e, m) ==
    IF n = 0 THEN [t |-> "f", n |-> 0, e |-> 0, m |-> 1]
    ELSE LET s == StripTwos(n, e)
             g == GCD(Abs(s[1]), m)
         IN  [t |-> "f", n |-> s[1] \div g, e |-> s[2], m |-> m \div g]

IsFloat(v) == v.t = "f"
IsInt(v) == v.t = "i"

\* v > k and v < k for an integer k
Greater(v, k) ==
    IF v.e = 0 /\ v.m = 1 THEN v.n > k
    ELSE IF v.e > 30 THEN FALSE ELSE v.n > k * Pow2(v.e) * v.m
Less(v, k) ==
    IF v.e = 0 /\ v.m = 1 THEN v.n < k
    ELSE IF v.e > 30 THEN FALSE ELSE v.n < k * Pow2(v.e) * v.m
IsZero(v) == v.n = 0
IsNegative(v) == v.n < 0

\* Python's a + b (int + int is an int, anything else a float)
Add(a, b) ==
    LET e == IF a.e > b.e THEN a.e ELSE b.e
        m == (a.m * b.m) \div GCD(a.m, b.m)
        n == a.n * Pow2(e - a.e) * (m \div a.m) + b.n * Pow2(e - b.e) * (m \div b.m)
    IN  IF IsInt(a) /\ IsInt(b) THEN IntV(a.n + b.n) ELSE FloatV(n, e, m)

\* floor(n * (2^b - 1) / (2^e1 * m)), e1 >= 1, without leaving the 32-bit range
MulPow2m1Floor(n, b, e1, m) ==
    IF b <= 30
    THEN LET A == Pow2m1(b)
             g == GCD(A, m)
         IN  (n * (A \div g)) \div (Pow2(e1) * (m \div g))
    ELSE \* m = 1: n*2^(b-e1) - n/2^e1, and n*2^k = n*(2^k - 1) + n
         n * Pow2m1(b - e1) + (n + ((-n) \div Pow2(e1)))

\* ------------------------------------------------- sample format converter
\* Apply f to every channel of every block of a nested sample list.
MapNest(f(_), nest) ==
    [b \in 1..Len(nest) |-> [c \in 1..Len(nest[b]) |-> f(nest[b][c])]]

\* a clip whose lower limit is the negative of the upper one
clip_pcm_sample_symmetric(v, bitDepth) ==
    IF Greater(v, Pow2m1(bitDepth - 1)) THEN IntV(Pow2m1(bitDepth - 1))
    ELSE IF Less(v, -Pow2m1(bitDepth - 1)) THEN IntV(-Pow2m1(bitDepth - 1))
    ELSE v

\* enginehelper.clip_pcm, one sample
clip_pcm_sample(v, bitDepth) ==
    IF Greater(v, Pow2m1(bitDepth - 1)) THEN IntV(Pow2m1(bitDepth - 1))
    ELSE IF Less(v, -Pow2m1(bitDepth - 1) - 1)
         THEN IntV(-Pow2m1(bitDepth - 1) - 1)
    ELSE v

clip_pcm(sampleNestedList, bitDepth) ==
    LET f(v) == clip_pcm_sample(v, bitDepth) IN MapNest(f, sampleNestedList)

\* a clip that also replaces the values equal to a limit, by the float limit
clip_float_sample_at_limit(v) ==
    IF ~Less(v, 1) THEN FloatV(1, 0, 1)
    ELSE IF ~Greater(v, -1) THEN FloatV(-1, 0, 1)
    ELSE v

\* enginehelper.clip_float, one sample
clip_float_sample(v) ==
    IF Greater(v, 1) THEN FloatV(1, 0, 1)
    ELSE IF Less(v, -1) THEN FloatV(-1, 0, 1)
    ELSE v

clip_float(sampleNestedList) == MapNest(clip_float_sample, sampleNestedList)

\* a conversion that takes the ceiling where the code takes the floor
float_to_pcm_sample_ceiling(v, bitDepth, signed) ==
    LET num == IF signed THEN v.n ELSE v.n + Pow2(v.e) * v.m
    IN  IntV(-MulPow2m1Floor(-num, bitDepth, v.e + 1, v.m))

\* enginehelper.float_to_pcm, one sample: math.floor(s * ((2**bitDepth - 1) / 2))
\* for signed, math.floor((s + 1) * ((2**bitDepth - 1) / 2)) for unsigned
float_to_pcm_sample(v, bitDepth, signed) ==
    LET num == IF signed THEN v.n ELSE v.n + Pow2(v.e) * v.m
    IN  IntV(MulPow2m1Floor(num, bitDepth, v.e + 1, v.m))

float_to_pcm(sampleNestedList, bitDepth, signed) ==
    LET f(v) == float_to_pcm_sample(v, bitDepth, signed)
    IN  MapNest(f, sampleNestedList)

\* a conversion that divides every signed sample by 2**(bitDepth-1) and adds
\* nothing to the positive ones
pcm_to_float_sample_without_offset(v, bitDepth, signed) ==
    IF signed THEN FloatV(v.n, v.e + bitDepth - 1, v.m)
    ELSE FloatV(2 * v.n - Pow2m1(bitDepth) * Pow2(v.e) * v.m, v.e,
                v.m * Pow2m1(bitDepth))

\* enginehelper.pcm_to_float, one sample.  Signed: s / 2**(bitDepth-1) when
\* s <= 0, else s / 2**(bitDepth-1) + 1 / 2**(bitDepth-1).  Unsigned:
\* s / ((2**bitDepth - 1) / 2) - 1.
pcm_to_float_sample(v, bitDepth, signed) ==
    IF signed
    THEN IF v.n <= 0 THEN FloatV(v.n, v.e + bitDepth - 1, v.m)
         ELSE IF v.e = 0 /\ v.m = 1 /\ v.n % 2 = 1
              \* (s + 1) / 2^(bitDepth-1) with s odd, halved on both sides
              THEN FloatV((v.n - 1) \div 2 + 1, bitDepth - 2, 1)
              ELSE FloatV(v.n + Pow2(v.e) * v.m, v.e + bitDepth - 1, v.m)
    ELSE FloatV(2 * v.n - Pow2m1(bitDepth) * Pow2(v.e) * v.m, v.e,
                v.m * Pow2m1(bitDepth))

pcm_to_float(sampleNestedList, bitDepth, signed) ==
    LET f(v) == pcm_to_float_sample(v, bitDepth, signed)
    IN  MapNest(f, sampleNestedList)

\* enginehelper.pcm_to_pcm: to float, then to PCM at the output depth
pcm_to_pcm(sampleNestedList, inBitDepth, outBitDepth, inSigned, outSigned) ==
    float_to_pcm(pcm_to_float(sampleNestedList, inBitDepth, inSigned),
                 outBitDepth, outSigned)

\* ------------------------------------------------------- signal parameters
\* wav_io: CORE_KEY_SIGNED is False exactly for PCM with a byte depth of one
Signed(format, byteDepth) == ~(format = PCM /\ byteDepth = INT8_SIZE)

\* WavBase.init_struct_fmt_str: the format / byte depth pairs that do not raise
SupportedFormat(format, byteDepth) ==
    \/ format = PCM /\ byteDepth \in {INT8_SIZE, INT16_SIZE}
    \/ format = FLOAT /\ byteDepth \in {FLOAT_SIZE, DOUBLE_SIZE}

\* the signalParams a header initialization leaves behind (core keys only)
SignalParams ==
    { [signalFormatStr |-> f, bitDepth |-> d * BYTE_SIZE, byteDepth |-> d,
       signed |-> Signed(f, d)] :
         <<f, d>> \in { x \in {FLOAT, PCM} \X {INT8_SIZE, INT16_SIZE, FLOAT_SIZE, DOUBLE_SIZE} :
                          SupportedFormat(x[1], x[2]) } }

\* ------------------------------------------------------ wrapper selection
\* the selection with the comparison of signedness left out of the test for
\* the wrapper without conversion
select_algorithm_wrapper_depth_only(readFormat, writeFormat, pluginFmt, readBitDepth, writeBitDepth, readSigned, writeSigned) ==
    IF readFormat = writeFormat /\ readFormat = FLOAT
    THEN IF pluginFmt = FLOAT THEN "wrapper_fff" ELSE "wrapper_fpf"
    ELSE IF readFormat = writeFormat
    THEN IF pluginFmt = FLOAT THEN "wrapper_pfp"
         ELSE IF ~readSigned THEN "wrapper_ppp_unsigned"
         ELSE IF readBitDepth = writeBitDepth
              THEN "wrapper_ppp_signed_no_conversion"
              ELSE "wrapper_ppp_signed_conversion"
    ELSE IF readFormat = FLOAT
    THEN IF pluginFmt = FLOAT THEN "wrapper_ffp"
         ELSE IF ~writeSigned THEN "wrapper_fpp_unsigned"
         ELSE "wrapper_fpp_signed"
    ELSE IF pluginFmt = FLOAT THEN "wrapper_pff"
         ELSE IF ~readSigned THEN "wrapper_ppf_unsigned"
         ELSE "wrapper_ppf_signed"

\* BaseEngine.select_algorithm_wrapper; "None" when no branch returns
select_algorithm_wrapper(readFormat, writeFormat, pluginFmt, readBitDepth, writeBitDepth, readSigned, writeSigned) ==
    IF readFormat = writeFormat /\ readFormat = FLOAT
    THEN IF pluginFmt = FLOAT THEN "wrapper_fff"
         ELSE IF pluginFmt = PCM THEN "wrapper_fpf"
         ELSE "None"
    ELSE IF readFormat = writeFormat /\ readFormat = PCM
    THEN IF pluginFmt = FLOAT THEN "wrapper_pfp"
         ELSE IF pluginFmt = PCM
         THEN IF ~readSigned THEN "wrapper_ppp_unsigned"
              ELSE IF readBitDepth = writeBitDepth /\ readSigned = writeSigned
                   THEN "wrapper_ppp_signed_no_conversion"
                   ELSE "wrapper_ppp_signed_conversion"
         ELSE "None"
    ELSE IF readFormat # writeFormat /\ readFormat = FLOAT
    THEN IF pluginFmt = FLOAT THEN "wrapper_ffp"
         ELSE IF pluginFmt = PCM
         THEN IF ~writeSigned THEN "wrapper_fpp_unsigned"
              ELSE "wrapper_fpp_signed"
         ELSE "None"
    ELSE IF readFormat # writeFormat /\ readFormat = PCM
    THEN IF pluginFmt = FLOAT THEN "wrapper_pff"
         ELSE IF pluginFmt = PCM
         THEN IF ~readSigned THEN "wrapper_ppf_unsigned"
              ELSE "wrapper_ppf_signed"
         ELSE "None"
    ELSE "None"

\* ---------------------------------------------------------------- wrappers
\* A wrapper runs in two halves around the call of the plugin algorithm.
\* Half "pre" yields [rec |-> the list given to update_reachback_deques,
\* arg |-> the list given to the algorithm]; half "post" yields the list the
\* wrapper returns for the list the algorithm returned.  The conversions work
\* in place, so sampleNestedList and preProcessedNest are one object.
wrapper_fff(eng, half, nest) ==
    IF half = "pre" THEN [rec |-> nest, arg |-> nest]
    ELSE clip_float(nest)

wrapper_fpf(eng, half, nest) ==
    IF half = "pre"
    THEN LET preProcessedNest == float_to_pcm(nest, FPF_BIT_DEPTH, TRUE)
         IN  [rec |-> preProcessedNest, arg |-> preProcessedNest]
    ELSE pcm_to_float(clip_pcm(nest, FPF_BIT_DEPTH), FPF_BIT_DEPTH, TRUE)

\* wrapper_pfp recording the list as read, before its conversion to float
wrapper_pfp_records_first(eng, half, nest) ==
    IF half = "pre"
    THEN [rec |-> nest,
          arg |-> pcm_to_float(nest, eng.readBitDepth, eng.readSigned)]
    ELSE float_to_pcm(clip_float(nest), eng.writeBitDepth, eng.writeSigned)

wrapper_pfp(eng, half, nest) ==
    IF half = "pre"
    THEN LET preProcessedNest == pcm_to_float(nest, eng.readBitDepth, eng.readSigned)
         IN  [rec |-> preProcessedNest, arg |-> preProcessedNest]
    ELSE float_to_pcm(clip_float(nest), eng.writeBitDepth, eng.writeSigned)

\* wrapper_ppp_unsigned handing the samples to the algorithm as they were read
wrapper_ppp_unsigned_as_read(eng, half, nest) ==
    IF half = "pre" THEN [rec |-> nest, arg |-> nest]
    ELSE pcm_to_pcm(clip_pcm(nest, eng.readBitDepth), eng.readBitDepth,
                    eng.writeBitDepth, TRUE, eng.writeSigned)

wrapper_ppp_unsigned(eng, half, nest) ==
    IF half = "pre"
    THEN LET preProcessedNest ==
                 pcm_to_pcm(nest, eng.readBitDepth, eng.readBitDepth,
                            eng.readSigned, TRUE)
         IN  [rec |-> preProcessedNest, arg |-> preProcessedNest]
    ELSE pcm_to_pcm(clip_pcm(nest, eng.readBitDepth), eng.readBitDepth,
                    eng.writeBitDepth, TRUE, eng.writeSigned)

wrapper_ppp_signed_no_conversion(eng, half, nest) ==
    IF half = "pre" THEN [rec |-> nest, arg |-> nest]
    ELSE clip_pcm(nest, eng.readBitDepth)

wrapper_ppp_signed_conversion(eng, half, nest) ==
    IF half = "pre" THEN [rec |-> nest, arg |-> nest]
    ELSE pcm_to_pcm(clip_pcm(nest, eng.readBitDepth), eng.readBitDepth,
                    eng.writeBitDepth, eng.readSigned, eng.writeSigned)

wrapper_ffp(eng, half, nest) ==
    IF half = "pre" THEN [rec |-> nest, arg |-> nest]
    ELSE float_to_pcm(clip_float(nest), eng.writeBitDepth, eng.writeSigned)

wrapper_fpp_unsigned(eng, half, nest) ==
    IF half = "pre"
    THEN LET preProcessedNest == float_to_pcm(nest, eng.writeBitDepth, TRUE)
         IN  [rec |-> preProcessedNest, arg |-> preProcessedNest]
    ELSE pcm_to_pcm(clip_pcm(nest, eng.writeBitDepth), eng.writeBitDepth,
                    eng.writeBitDepth, TRUE, eng.writeSigned)

\* wrapper_fpp_signed returning what the algorithm returned, unclipped
wrapper_fpp_signed_unclipped(eng, half, nest) ==
    IF half = "pre"
    THEN LET preProcessedNest ==
                 float_to_pcm(nest, eng.writeBitDepth, eng.writeSigned)
         IN  [rec |-> preProcessedNest, arg |-> preProcessedNest]
    ELSE nest

wrapper_fpp_signed(eng, half, nest) ==
    IF half = "pre"
    THEN LET preProcessedNest ==
                 float_to_pcm(nest, eng.writeBitDepth, eng.writeSigned)
         IN  [rec |-> preProcessedNest, arg |-> preProcessedNest]
    ELSE clip_pcm(nest, eng.writeBitDepth)

wrapper_pff(eng, half, nest) ==
    IF half = "pre"
    THEN LET preProcessedNest == pcm_to_float(nest, eng.readBitDepth, eng.readSigned)
         IN  [rec |-> preProcessedNest, arg |-> preProcessedNest]
    ELSE clip_float(nest)

\* the algorithm is handed sampleNestedList, the object pcm_to_pcm converted
wrapper_ppf_unsigned(eng, half, nest) ==
    IF half = "pre"
    THEN LET preProcessedNest ==
                 pcm_to_pcm(nest, eng.readBitDepth, eng.readBitDepth,
                            eng.readSigned, TRUE)
         IN  [rec |-> preProcessedNest, arg |-> preProcessedNest]
    ELSE pcm_to_float(clip_pcm(nest, eng.readBitDepth), eng.readBitDepth, TRUE)

\* clip_pcm clips processedNest in place before it is converted
wrapper_ppf_signed(eng, half, nest) ==
    IF half = "pre" THEN [rec |-> nest, arg |-> nest]
    ELSE pcm_to_float(clip_pcm(nest, eng.readBitDepth), eng.readBitDepth,
                      eng.readSigned)

Wrappers ==
    { "wrapper_fff", "wrapper_fpf", "wrapper_pfp", "wrapper_ppp_unsigned",
      "wrapper_ppp_signed_no_conversion", "wrapper_ppp_signed_conversion",
      "wrapper_ffp", "wrapper_fpp_unsigned", "wrapper_fpp_signed",
      "wrapper_pff", "wrapper_ppf_unsigned", "wrapper_ppf_signed" }

\* self.algorithm_wrapper(self, nest): the call of the selected wrapper
algorithm_wrapper(w, eng, half, nest) ==
    CASE w = "wrapper_fff" -> wrapper_fff(eng, half, nest)
      [] w = "wrapper_fpf" -> wrapper_fpf(eng, half, nest)
      [] w = "wrapper_pfp" -> wrapper_pfp(eng, half, nest)
      [] w = "wrapper_ppp_unsigned" -> wrapper_ppp_unsigned(eng, half, nest)
      [] w = "wrapper_ppp_signed_no_conversion" ->
             wrapper_ppp_signed_no_conversion(eng, half, nest)
      [] w = "wrapper_ppp_signed_conversion" ->
             wrapper_ppp_signed_conversion(eng, half, nest)
      [] w = "wrapper_ffp" -> wrapper_ffp(eng, half, nest)
      [] w = "wrapper_fpp_unsigned" -> wrapper_fpp_unsigned(eng, half, nest)
      [] w = "wrapper_fpp_signed" -> wrapper_fpp_signed(eng, half, nest)
      [] w = "wrapper_pff" -> wrapper_pff(eng, half, nest)
      [] w = "wrapper_ppf_unsigned" -> wrapper_ppf_unsigned(eng, half, nest)
      [] w = "wrapper_ppf_signed" -> wrapper_ppf_signed(eng, half, nest)

\* ------------------------------------------------------ reach-back history
\* the queue capacity without the test for a reach-back of 0
reachBackDequeLength_unconditional(reachBack) ==
    (reachBack + SAMPLES_PER_BUFFER - 1) \div SAMPLES_PER_BUFFER + 1

\* reachBackDequeLength of BaseEngine.__init__
reachBackDequeLength(reachBack) ==
    IF reachBack > 0
    THEN (reachBack + SAMPLES_PER_BUFFER - 1) \div SAMPLES_PER_BUFFER + 1
    ELSE 0

\* an append that drops the new element once maxlen is reached
DequeAppend_keeps_oldest(dq, x, maxlen) ==
    IF Len(dq) < maxlen THEN Append(dq, x) ELSE dq

\* collections.deque(maxlen).append: drop from the left once maxlen is passed
DequeAppend(dq, x, maxlen) ==
    IF maxlen = 0 THEN dq
    ELSE IF Len(dq) < maxlen THEN Append(dq, x)
    ELSE Append(Tail(dq), x)

\* update_reachback_deques without copy.deepcopy: the deque keeps `obj` itself
update_reachback_deques_alias(h, rbDeque, lenDeque, samples, obj, fresh, maxlen) ==
    [ heap |-> h,
      reachBackDeque |-> DequeAppend(rbDeque, obj, maxlen),
      bufferLenDeque |-> DequeAppend(lenDeque, Len(samples), maxlen) ]

\* BaseEngine.update_reachback_deques(obj): copy.deepcopy stores the samples
\* of the list `obj` under the new identity `fresh`; the deque keeps `fresh`.
update_reachback_deques(h, rbDeque, lenDeque, samples, obj, fresh, maxlen) ==
    [ heap |-> (fresh :> samples) @@ h,
      reachBackDeque |-> DequeAppend(rbDeque, fresh, maxlen),
      bufferLenDeque |-> DequeAppend(lenDeque, Len(samples), maxlen) ]

RECURSIVE SumSeq(_)
SumSeq(q) == IF q = <<>> THEN 0 ELSE Head(q) + SumSeq(Tail(q))

\* the loop of reach_back adding the lengths from the oldest buffer on
RECURSIVE FindBuffer_oldest_first(_, _, _)
FindBuffer_oldest_first(lenDeque, rbIndex, i) ==
    LET r == rbIndex + lenDeque[i]
    IN  IF r >= 0 \/ i = Len(lenDeque) THEN <<i, r>>
        ELSE FindBuffer_oldest_first(lenDeque, r, i + 1)

\* the loop `for i in range(1, len(bufferLenDeque)+1)` of reach_back: the
\* pair <<i, rbIndex>> at the break, or after the last round
RECURSIVE FindBuffer(_, _, _)
FindBuffer(lenDeque, rbIndex, i) ==
    LET r == rbIndex + lenDeque[Len(lenDeque) - i + 1]
    IN  IF r >= 0 \/ i = Len(lenDeque) THEN <<i, r>>
        ELSE FindBuffer(lenDeque, r, i + 1)

\* Python's list[k] for k that may be negative; `err` when out of range
PyIndex(list, k, err) ==
    IF k >= 0 /\ k < Len(list) THEN list[k + 1]
    ELSE IF k < 0 /\ -k <= Len(list) THEN list[Len(list) + k + 1]
    ELSE err

\* the value standing for a raised IndexError
IndexError == [t |-> "IndexError", n |-> 0, e |-> 0, m |-> 1]

\* reach_back with its test for the start of the stream off by one
reach_back_off_by_one(h, rbDeque, lenDeque, numSamples, currBlock, currChannel) ==
    LET last == lenDeque[Len(lenDeque)]
        preceedingSamples == -last + SumSeq(lenDeque) + currBlock
    IN  IF numSamples > preceedingSamples + 1 THEN IntV(0)
        ELSE LET f == FindBuffer(lenDeque, currBlock - last - numSamples, 1)
                 buffer == h[rbDeque[Len(rbDeque) - f[1] + 1]]
                 block == PyIndex(buffer, f[2], <<>>)
             IN  PyIndex(block, currChannel, IndexError)

\* BaseEngine.reach_back(numSamples, currBlock, currChannel), indices from 0
reach_back(h, rbDeque, lenDeque, numSamples, currBlock, currChannel) ==
    LET last == lenDeque[Len(lenDeque)]
        preceedingSamples == -last + SumSeq(lenDeque) + currBlock
    IN  IF numSamples > preceedingSamples THEN IntV(0)
        ELSE LET f == FindBuffer(lenDeque, currBlock - last - numSamples, 1)
                 buffer == h[rbDeque[Len(rbDeque) - f[1] + 1]]
                 block == PyIndex(buffer, f[2], <<>>)
             IN  PyIndex(block, currChannel, IndexError)

\* Python's list[a:b] for 0 <= a <= b
PySlice(list, a, b) ==
    LET hi == IF b < Len(list) THEN b ELSE Len(list)
    IN  IF a >= hi THEN <<>> ELSE SubSeq(list, a + 1, hi)

\* --------------------------------------------------------------- algorithms
\* The plugin algorithm is the callback the engine is constructed with:
\*   "default"   enginehelper.default_algorithm, returns its argument;
\*   "reachback" the callback of the reach-back tests, which adds
\*               reach_back(n, block, channel) to every sample in place.
Algorithms(reachBack) ==
    {[kind |-> "default", n |-> 0]} \cup
    {[kind |-> "reachback", n |-> k] : k \in IF reachBack > 0 THEN 0..(reachBack + 1) ELSE {}}

\* one round of the callback's loop over the blocks: block `b` (from 0) of
\* the list `nest` after `sample += reach_back(n, b, channel)` on every channel
reachback_cb(h, rbDeque, lenDeque, nest, n, b) ==
    [nest EXCEPT ![b + 1] =
        [c \in 1..Len(nest[b + 1]) |->
            Add(nest[b + 1][c], reach_back(h, rbDeque, lenDeque, n, b, c - 1))]]

\* -------------------------------------------------------------- input file
\* number of channels of the input file
NumChannels == 2

\* The sample at block i (from 1), channel c (from 1) of the input's data
\* chunk: distinct values around the format's zero, negative ones included.
InputSample(params, variant, i, c) ==
    LET x == variant * (3 * i + c - 7)
    IN  IF params.signalFormatStr = FLOAT THEN FloatV(x, 5, 1)
        ELSE IF params.signed THEN IntV(x)
        ELSE IntV(Pow2(params.bitDepth - 1) + x)

InputVariants == {1, -1}

InputData(params, variant, numBlocks) ==
    [i \in 1..numBlocks |-> [c \in 1..NumChannels |-> InputSample(params, variant, i, c)]]

\* ------------------------------------------------------------------- state
VARIABLES
    eng,             \* the engine's fields set by BaseEngine.__init__
    algorithm,       \* self.algorithm, the plugin callback
    wrapper,         \* self.algorithm_wrapper, the selected wrapper
    input,           \* the sample blocks of the input file's data chunk
    readPos,         \* blocks of the data chunk consumed from readStream
    pc,              \* where process() is: HeaderRead, Streaming, Flushing, Closed
    call,            \* what runs inside the loop body: none, wrapper, algorithm
    heap,            \* the live nested sample lists, by object identity
    cur,             \* identity of sampleNestedList / bufferFull (0: none)
    algBlock,        \* the block the algorithm's loop is at (from 0)
    reachBackDeque,  \* self.reachBackDeque: identities of the stored copies
    bufferLenDeque,  \* self.bufferLenDeque
    counter,         \* flush()'s counter
    outFile,         \* what was written to writeStream, in order
    streams,         \* which of readStream / writeStream are open
    stream,          \* history: every block handed to the algorithm so far
    log              \* history: counters of the calls made so far

vars == << eng, algorithm, wrapper, input, readPos, pc, call, heap, cur, algBlock,
           reachBackDeque, bufferLenDeque, counter, outFile, streams, stream, log >>

\* the engines BaseEngine.__init__ can build from a readable input file
Engines ==
    { [ readFormat |-> r.signalFormatStr, writeFormat |-> w.signalFormatStr,
        readBitDepth |-> r.bitDepth, writeBitDepth |-> w.bitDepth,
        readSigned |-> r.signed, writeSigned |-> w.signed,
        pluginFmt |-> p, reachBack |-> rb, numChannels |-> NumChannels ] :
      r \in SignalParams, w \in SignalParams, p \in {FLOAT, PCM},
      rb \in 0..MaxReachBack }

ReadParams(e) ==
    [signalFormatStr |-> e.readFormat, bitDepth |-> e.readBitDepth,
     signed |-> e.readSigned]

\* FileToFileEngine(inputEntity, outputEntity, algorithm, options) has returned
Init ==
    /\ eng \in Engines
    /\ algorithm \in Algorithms(eng.reachBack)
    /\ wrapper = select_algorithm_wrapper(eng.readFormat, eng.writeFormat,
                     eng.pluginFmt, eng.readBitDepth, eng.writeBitDepth,
                     eng.readSigned, eng.writeSigned)
    /\ \E numBlocks \in 0..MaxBlocks, variant \in InputVariants :
           input = InputData(ReadParams(eng), variant, numBlocks)
    /\ readPos = 0
    /\ pc = "HeaderRead"
    /\ call = "none"
    /\ heap = << >>
    /\ cur = 0
    /\ algBlock = 0
    /\ reachBackDeque = << >>
    /\ bufferLenDeque = << >>
    /\ counter = 0
    /\ outFile = << >>
    /\ streams = {}
    /\ stream = << >>
    /\ log = [nInv |-> 0, nRec |-> 0, nReads |-> 0, nFlush |-> 0, eof |-> FALSE,
              fed |-> << >>]

\* the heap entries still referenced from `keep`
Live(h, keep) == [i \in (DOMAIN h) \cap keep |-> h[i]]

Range(q) == {q[i] : i \in 1..Len(q)}

\* process(): both files are opened, the output header is written and the
\* read stream is placed at the start of the sample data
WriteHeader ==
    /\ pc = "HeaderRead"
    /\ streams' = {"readStream", "writeStream"}
    /\ outFile' = Append(outFile, [kind |-> "header"])
    /\ pc' = "Streaming"
    /\ UNCHANGED << eng, algorithm, wrapper, input, readPos, call, heap, cur,
                    algBlock, reachBackDeque, bufferLenDeque, counter, stream, log >>

\* process(): readStream.read(bufferSize) returns data, which is unpacked and
\* passed to self.algorithm_wrapper
ReadBuffer ==
    /\ pc = "Streaming" /\ call = "none"
    /\ LET sampleNestedList == PySlice(input, readPos, readPos + SAMPLES_PER_BUFFER)
           obj == 2 * (log.nInv + 1)
       IN  /\ sampleNestedList # << >>
           /\ readPos' = readPos + Len(sampleNestedList)
           /\ heap' = (obj :> sampleNestedList) @@ heap
           /\ cur' = obj
           /\ log' = [log EXCEPT !.nReads = @ + 1,
                                 !.fed = Append(@, <<"input", log.nReads + 1>>)]
    /\ call' = "wrapper"
    /\ UNCHANGED << eng, algorithm, wrapper, input, pc, algBlock, reachBackDeque,
                    bufferLenDeque, counter, outFile, streams, stream >>

\* end of input with both streams closed before flush() has run
EndOfInput_closes_first ==
    /\ pc = "Streaming" /\ call = "none"
    /\ PySlice(input, readPos, readPos + SAMPLES_PER_BUFFER) = << >>
    /\ log' = [log EXCEPT !.nReads = @ + 1, !.eof = TRUE]
    /\ pc' = IF eng.reachBack = 0 THEN "Closed" ELSE "Flushing"
    /\ streams' = {}
    /\ counter' = 0
    /\ UNCHANGED << eng, algorithm, wrapper, input, readPos, call, heap, cur,
                    algBlock, reachBackDeque, bufferLenDeque, outFile, stream >>

\* process(): readStream.read(bufferSize) returns nothing; the loop is left and
\* flush() is entered, which returns at once (and the files are closed) when
\* no reach-back was asked for
EndOfInput ==
    /\ pc = "Streaming" /\ call = "none"
    /\ PySlice(input, readPos, readPos + SAMPLES_PER_BUFFER) = << >>
    /\ log' = [log EXCEPT !.nReads = @ + 1, !.eof = TRUE]
    /\ IF eng.reachBack = 0
       THEN /\ pc' = "Closed"
            /\ streams' = {}
       ELSE /\ pc' = "Flushing"
            /\ streams' = streams
    /\ counter' = 0
    /\ UNCHANGED << eng, algorithm, wrapper, input, readPos, call, heap, cur,
                    algBlock, reachBackDeque, bufferLenDeque, outFile, stream >>

\* flush() with the integer 0 for every PCM input
FlushZero_unsigned_as_signed(e) ==
    IF e.readFormat = FLOAT THEN FloatV(0, 0, 1) ELSE IntV(0)

\* flush(): the zero of the input format
FlushZero(e) ==
    IF e.readFormat = FLOAT THEN FloatV(0, 0, 1)
    ELSE IF e.readSigned THEN IntV(0)
    ELSE IntV(Pow2(e.readBitDepth - 1))

\* a nest that is one standard buffer longer than the reach-back
FlushNest_one_buffer_more(e) ==
    [i \in 1..(e.reachBack + SAMPLES_PER_BUFFER) |->
        [c \in 1..e.numChannels |-> FlushZero(e)]]

\* flush(): nest, reachBack blocks of zeros
FlushNest(e) ==
    [i \in 1..e.reachBack |-> [c \in 1..e.numChannels |-> FlushZero(e)]]

\* flush(): one round of `while True`: leave when counter > len(nest), else
\* pass the next slice of nest to self.algorithm_wrapper
FlushStep ==
    /\ pc = "Flushing" /\ call = "none"
    /\ IF counter > Len(FlushNest(eng))
       THEN /\ pc' = "Closed"
            /\ streams' = {}
            /\ UNCHANGED << heap, cur, call, log >>
       ELSE LET bufferFull == PySlice(FlushNest(eng), counter,
                                      counter + SAMPLES_PER_BUFFER)
                obj == 2 * (log.nInv + 1)
            IN  /\ heap' = (obj :> bufferFull) @@ heap
                /\ cur' = obj
                /\ call' = "wrapper"
                /\ log' = [log EXCEPT !.nFlush = @ + 1,
                                      !.fed = Append(@, <<"flush", log.nFlush + 1>>)]
                /\ UNCHANGED << pc, streams >>
    /\ UNCHANGED << eng, algorithm, wrapper, input, readPos, algBlock,
                    reachBackDeque, bufferLenDeque, counter, outFile, stream >>

\* a write that puts the chunk right behind the header
write_behind_header(file, chunk) ==
    IF file = << >> THEN << chunk >>
    ELSE << Head(file), chunk >> \o Tail(file)

\* writeStream.write(processedByteArray): the chunk goes to the end of the file
write(file, chunk) == Append(file, chunk)

\* the blocks of the buffer the running wrapper handed to the algorithm
Handed == SubSeq(stream, Len(stream) - Len(heap[cur]) + 1, Len(stream))

\* A wrapper up to its call of the algorithm: the conversion towards the
\* plugin format (in place), update_reachback_deques, engineObj.algorithm(...)
WrapperEnter ==
    /\ call = "wrapper"
    /\ LET pre == algorithm_wrapper(wrapper, eng, "pre", heap[cur])
           u == update_reachback_deques([heap EXCEPT ![cur] = pre.arg],
                    reachBackDeque, bufferLenDeque, pre.rec, cur, cur + 1,
                    reachBackDequeLength(eng.reachBack))
       IN  /\ heap' = Live(u.heap, {cur} \cup Range(u.reachBackDeque))
           /\ reachBackDeque' = u.reachBackDeque
           /\ bufferLenDeque' = u.bufferLenDeque
           /\ stream' = stream \o pre.arg
    /\ log' = [log EXCEPT !.nInv = @ + 1, !.nRec = @ + 1]
    /\ algBlock' = 0
    /\ call' = "algorithm"
    /\ UNCHANGED << eng, algorithm, wrapper, input, readPos, pc, cur, counter,
                    outFile, streams >>

\* the reach-back callback handles its next block, in place
AlgStep ==
    /\ call = "algorithm"
    /\ algorithm.kind = "reachback"
    /\ algBlock < Len(heap[cur])
    /\ heap' = [heap EXCEPT ![cur] =
                   reachback_cb(heap, reachBackDeque, bufferLenDeque, heap[cur],
                                algorithm.n, algBlock)]
    /\ algBlock' = algBlock + 1
    /\ UNCHANGED << eng, algorithm, wrapper, input, readPos, pc, call, cur,
                    reachBackDeque, bufferLenDeque, counter, outFile, streams,
                    stream, log >>

\* The algorithm returns its list; the wrapper clips and converts it towards
\* the output format (in place) and returns it; process() / flush() repack it
\* and write it, and flush() advances its counter.
WrapperReturn ==
    /\ call = "algorithm"
    /\ algorithm.kind = "default" \/ algBlock = Len(heap[cur])
    /\ LET processedSampleNestedList ==
               algorithm_wrapper(wrapper, eng, "post", heap[cur])
       IN  /\ outFile' = write(outFile, [kind |-> "data", inv |-> log.nInv,
                                         samples |-> processedSampleNestedList])
           /\ heap' = Live([heap EXCEPT ![cur] = processedSampleNestedList],
                           Range(reachBackDeque))
    /\ cur' = 0
    /\ algBlock' = 0
    /\ call' = "none"
    /\ counter' = IF pc = "Flushing" THEN counter + SAMPLES_PER_BUFFER ELSE counter
    /\ UNCHANGED << eng, algorithm, wrapper, input, readPos, pc, reachBackDeque,
                    bufferLenDeque, streams, stream, log >>

Next ==
    \/ WriteHeader
    \/ ReadBuffer
    \/ EndOfInput
    \/ FlushStep
    \/ WrapperEnter
    \/ AlgStep
    \/ WrapperReturn

Spec == Init /\ [][Next]_vars

\* ------------------------------------------------------------------ claims
\* position in `stream` (from 1) of block b (from 0) of the current buffer
StreamPos(b) == Len(stream) - Len(heap[cur]) + b + 1

\* C1: with reach-back R > 0, while the algorithm handles a buffer, every call
\* reach_back(n, b, c) with 0 <= n <= R returns the channel-c sample handed to
\* the algorithm n blocks before block b, whenever the stream has that block.
C1_ReachBackReturnsEarlierSample ==
    (call = "algorithm" /\ eng.reachBack > 0) =>
        \A n \in 0..eng.reachBack, b \in 0..(Len(heap[cur]) - 1),
           c \in 0..(eng.numChannels - 1) :
            StreamPos(b) - n >= 1 =>
                reach_back(heap, reachBackDeque, bufferLenDeque, n, b, c)
                    = stream[StreamPos(b) - n][c + 1]

Min(a, b) == IF a < b THEN a ELSE b

\* the block counts in the length queue, the current buffer's left out
QueuedBefore ==
    IF bufferLenDeque = << >> THEN 0
    ELSE SumSeq(bufferLenDeque) - bufferLenDeque[Len(bufferLenDeque)]

\* C2: at every invocation of the algorithm the block counts in the length
\* queue, the current buffer's left out, sum to at least min(R, number of
\* blocks recorded before the current buffer).
C2_QueueCoversReachBack ==
    call = "algorithm" =>
        QueuedBefore >= Min(eng.reachBack, Len(stream) - Len(heap[cur]))

\* what reach_back computes as the number of blocks that precede block b
Preceding(b) ==
    SumSeq(bufferLenDeque) - bufferLenDeque[Len(bufferLenDeque)] + b

\* the zero of a format as the claim words it: 0 for float and signed PCM,
\* 2^(bitDepth-1) for unsigned PCM
FormatZero(format, signed, bitDepth) ==
    IF format = PCM /\ ~signed THEN Pow2(bitDepth - 1) ELSE 0

\* the calls reach_back(n, b, c) the algorithm can make on the current buffer
\* beyond the blocks that precede block b
BeyondStart ==
    { q \in (0..(eng.reachBack + 1)) \X (0..(Len(heap[cur]) - 1))
            \X (0..(eng.numChannels - 1)) : q[1] > Preceding(q[2]) }

\* C3 as stated: reach_back beyond the preceding blocks returns the zero of
\* the stream's format, 2^(bitDepth-1) for an unsigned PCM input.
C3_FormatZeroBeyondStart ==
    (call = "algorithm" /\ eng.reachBack > 0) =>
        \A q \in BeyondStart :
            LET r == reach_back(heap, reachBackDeque, bufferLenDeque, q[1], q[2], q[3])
            IN  /\ r.e = 0 /\ r.m = 1
                /\ r.n = FormatZero(eng.readFormat, eng.readSigned, eng.readBitDepth)

\* C3 (amended): reach_back beyond the preceding blocks returns the integer 0
\* whatever the formats of the input, output and plugin.
C3_IntZeroBeyondStart ==
    (call = "algorithm" /\ eng.reachBack > 0) =>
        \A q \in BeyondStart :
            reach_back(heap, reachBackDeque, bufferLenDeque, q[1], q[2], q[3]) = IntV(0)

\* C3 (witness): the algorithm runs on an unsigned PCM input with blocks in
\* the history, and some call reaches beyond them
C3_Witness ==
    /\ call = "algorithm" /\ eng.reachBack > 0
    /\ eng.readFormat = PCM /\ ~eng.readSigned
    /\ BeyondStart # {}
    /\ Len(stream) > Len(heap[cur])

\* the samples the history queue holds, oldest buffer first
History == [i \in 1..Len(reachBackDeque) |-> heap[reachBackDeque[i]]]

\* C4: once a buffer is recorded, what the algorithm (and the wrapper after it)
\* writes into that buffer in place changes no sample of the history queue, and
\* the newest entry of the history is the buffer as it was handed over.
C4_HistoryIsDeepCopy ==
    /\ []((call = "algorithm" /\ eng.reachBack > 0) =>
              History[Len(History)] = Handed)
    /\ [][call = "algorithm" => History' = History]_vars

\* C4 (witness): the algorithm has changed its buffer in place
C4_Witness ==
    /\ call = "algorithm" /\ eng.reachBack > 0
    /\ heap[cur] # Handed

\* C5: whichever wrapper is selected, by the time the algorithm runs the
\* wrapper has recorded exactly one buffer for this invocation, and the buffer
\* recorded has the sample values of the buffer handed to the algorithm.
C5_RecordsHandedBuffer ==
    /\ log.nRec = log.nInv
    /\ (call = "algorithm" /\ eng.reachBack > 0) =>
           /\ History[Len(History)] = Handed
           /\ bufferLenDeque[Len(bufferLenDeque)] = Len(Handed)

\* C5 (witness): a wrapper that converts before the call has handed over a
\* buffer whose values differ from the ones read
C5_Witness ==
    /\ call = "algorithm" /\ algBlock = 0 /\ eng.reachBack > 0
    /\ wrapper = "wrapper_pfp"
    /\ pc = "Streaming"
    /\ Handed # SubSeq(input, readPos - Len(Handed) + 1, readPos)

\* ------------------------------------------- wrapper selection on its own
\* every input / output / plugin format with every bit depth and signedness
BitDepths ==
    {d * BYTE_SIZE : d \in {INT8_SIZE, INT16_SIZE, FLOAT_SIZE, DOUBLE_SIZE}}

AllFormats ==
    { [ readFormat |-> rf, writeFormat |-> wf, readBitDepth |-> rd,
        writeBitDepth |-> wd, readSigned |-> rs, writeSigned |-> ws,
        pluginFmt |-> p, reachBack |-> 0, numChannels |-> NumChannels ] :
      rf \in {FLOAT, PCM}, wf \in {FLOAT, PCM}, p \in {FLOAT, PCM},
      rd \in BitDepths, wd \in BitDepths, rs \in BOOLEAN, ws \in BOOLEAN }

\* BaseEngine.__init__ has set the format fields and not yet the wrapper
SelectInit ==
    /\ eng \in AllFormats
    /\ algorithm = [kind |-> "default", n |-> 0]
    /\ wrapper = "None"
    /\ input = << >>
    /\ readPos = 0
    /\ pc = "Init"
    /\ call = "none"
    /\ heap = << >>
    /\ cur = 0
    /\ algBlock = 0
    /\ reachBackDeque = << >>
    /\ bufferLenDeque = << >>
    /\ counter = 0
    /\ outFile = << >>
    /\ streams = {}
    /\ stream = << >>
    /\ log = [nInv |-> 0, nRec |-> 0, nReads |-> 0, nFlush |-> 0, eof |-> FALSE,
              fed |-> << >>]

\* self.algorithm_wrapper = self.select_algorithm_wrapper()
SelectWrapper ==
    /\ pc = "Init"
    /\ wrapper' = select_algorithm_wrapper(eng.readFormat, eng.writeFormat,
                      eng.pluginFmt, eng.readBitDepth, eng.writeBitDepth,
                      eng.readSigned, eng.writeSigned)
    /\ pc' = "HeaderRead"
    /\ UNCHANGED << eng, algorithm, input, readPos, call, heap, cur, algBlock,
                    reachBackDeque, bufferLenDeque, counter, outFile, streams,
                    stream, log >>

SelectNext == SelectWrapper

SelectSpec == SelectInit /\ [][SelectNext]_vars

\* the wrapper the decision structure designates, rule by rule
Designated(e) ==
    LET bothFloat == e.readFormat = FLOAT /\ e.writeFormat = FLOAT
        bothPcm == e.readFormat = PCM /\ e.writeFormat = PCM
        floatToPcm == e.readFormat = FLOAT /\ e.writeFormat = PCM
        pcmToFloat == e.readFormat = PCM /\ e.writeFormat = FLOAT
        algFloat == e.pluginFmt = FLOAT
        algPcm == e.pluginFmt = PCM
        same == e.readBitDepth = e.writeBitDepth /\ e.readSigned = e.writeSigned
    IN  CASE bothFloat /\ algFloat -> "wrapper_fff"
          [] bothFloat /\ algPcm -> "wrapper_fpf"
          [] bothPcm /\ algFloat -> "wrapper_pfp"
          [] bothPcm /\ algPcm /\ ~e.readSigned -> "wrapper_ppp_unsigned"
          [] bothPcm /\ algPcm /\ e.readSigned /\ same ->
                 "wrapper_ppp_signed_no_conversion"
          [] bothPcm /\ algPcm /\ e.readSigned /\ ~same ->
                 "wrapper_ppp_signed_conversion"
          [] floatToPcm /\ algFloat -> "wrapper_ffp"
          [] floatToPcm /\ algPcm /\ ~e.writeSigned -> "wrapper_fpp_unsigned"
          [] floatToPcm /\ algPcm /\ e.writeSigned -> "wrapper_fpp_signed"
          [] pcmToFloat /\ algFloat -> "wrapper_pff"
          [] pcmToFloat /\ algPcm /\ ~e.readSigned -> "wrapper_ppf_unsigned"
          [] pcmToFloat /\ algPcm /\ e.readSigned -> "wrapper_ppf_signed"

\* C6: for every input, output and plugin format in {float, PCM} and every bit
\* depth and signedness, select_algorithm_wrapper returns one of the twelve
\* wrappers, the one the decision structure designates; the wrapper without
\* conversion is selected exactly when all three formats are PCM, the input is
\* signed and the input's bit depth and signedness equal the output's.
C6_SelectsDesignatedWrapper ==
    pc # "Init" =>
        /\ wrapper \in Wrappers
        /\ wrapper = Designated(eng)
        /\ wrapper = "wrapper_ppp_signed_no_conversion" <=>
               /\ eng.readFormat = PCM /\ eng.writeFormat = PCM
               /\ eng.pluginFmt = PCM
               /\ eng.readSigned
               /\ eng.readBitDepth = eng.writeBitDepth
               /\ eng.readSigned = eng.writeSigned

\* C6 (witness): signed PCM in, unsigned PCM out at the same bit depth
C6_Witness ==
    /\ pc # "Init"
    /\ wrapper = "wrapper_ppp_signed_conversion"
    /\ eng.readBitDepth = eng.writeBitDepth

\* ------------------------------------------------ order of reads and writes
\* the chunks of sample data in the output file, the header left out
DataChunks == IF outFile = << >> THEN << >> ELSE Tail(outFile)

\* the reads that returned data
InputBuffers == log.nReads - (IF log.eof THEN 1 ELSE 0)

\* a zero-valued sample as the claims word it for the input format
ZeroSample ==
    IF eng.readFormat = FLOAT THEN FloatV(0, 0, 1)
    ELSE IntV(FormatZero(eng.readFormat, eng.readSigned, eng.readBitDepth))

ZeroBlock == [c \in 1..eng.numChannels |-> ZeroSample]

\* the k-th buffer fed to the wrapper, from where the log says it came: the
\* j-th run of SAMPLES_PER_BUFFER blocks of the input, or of reachBack zero
\* blocks (the last run may be short)
BufferFed(k) ==
    LET j == log.fed[k][2]
        lo == (j - 1) * SAMPLES_PER_BUFFER + 1
        hi == j * SAMPLES_PER_BUFFER
    IN  IF log.fed[k][1] = "input"
        THEN SubSeq(input, lo, Min(hi, Len(input)))
        ELSE SubSeq([i \in 1..eng.reachBack |-> ZeroBlock], lo,
                    Min(hi, eng.reachBack))

RECURSIVE BuffersFed(_)
BuffersFed(k) == IF k = 0 THEN << >> ELSE BuffersFed(k - 1) \o BufferFed(k)

\* the buffer the algorithm gets from the wrapper for a buffer fed to it
ToPlugin(nest) == algorithm_wrapper(wrapper, eng, "pre", nest).arg

\* the buffer the wrapper returns for what the algorithm returned
FromPlugin(nest) == algorithm_wrapper(wrapper, eng, "post", nest)

\* C7 (state part): the buffers are fed in the order read, input buffers then
\* flush buffers; the algorithm has run once for every buffer fed; the k-th
\* chunk of sample data in the output comes from the k-th invocation, has as
\* many blocks as the k-th buffer, and with the default algorithm is that
\* buffer taken through the wrapper's two conversions.
C7_InOrder ==
    /\ \A k \in 1..Len(log.fed) :
           log.fed[k] = IF k <= InputBuffers THEN <<"input", k>>
                        ELSE <<"flush", k - InputBuffers>>
    /\ log.nInv = Len(log.fed) - (IF call = "wrapper" THEN 1 ELSE 0)
    /\ stream = ToPlugin(BuffersFed(log.nInv))
    /\ Len(DataChunks) = log.nInv - (IF call = "algorithm" THEN 1 ELSE 0)
    /\ \A k \in 1..Len(DataChunks) :
           /\ DataChunks[k].kind = "data"
           /\ DataChunks[k].inv = k
           /\ Len(DataChunks[k].samples) = Len(BufferFed(k))
           /\ algorithm.kind = "default" =>
                  DataChunks[k].samples = FromPlugin(ToPlugin(BufferFed(k)))

\* C7: buffers go to the algorithm in the order read, the algorithm runs once
\* per buffer (input and flush alike) and has returned, its result written,
\* before the next read; the k-th chunk written is the result of the k-th
\* invocation.
C7_OnceEachInReadOrder ==
    /\ []C7_InOrder
    /\ [][log.nReads' # log.nReads =>
              call = "none" /\ Len(outFile) = log.nInv + 1]_vars

\* C7 (witness): a run with input and flush buffers, a short last input buffer
\* among them, is complete and its output differs chunk from chunk
C7_Witness ==
    /\ pc = "Closed"
    /\ log.nFlush >= 2 /\ InputBuffers >= 2
    /\ Len(input) % SAMPLES_PER_BUFFER # 0
    /\ DataChunks[1].samples # DataChunks[2].samples

\* the blocks of sample data written to the output
RECURSIVE BlocksIn(_)
BlocksIn(chunks) ==
    IF chunks = << >> THEN 0 ELSE Len(Head(chunks).samples) + BlocksIn(Tail(chunks))

\* the blocks fed to the wrapper by flush()
FlushedBlocks == Len(stream) + (IF call = "wrapper" THEN Len(heap[cur]) ELSE 0) - readPos

\* C8: with reach-back R > 0 every buffer flush() feeds to the wrapper holds
\* only blocks of one zero per input channel (0.0 for float, 0 for signed PCM,
\* 2^(bitDepth-1) for unsigned PCM); when the run is over flush() has fed R
\* blocks and the output holds the input's blocks plus R.
C8_FlushFeedsRZeroBlocks ==
    /\ (pc = "Flushing" /\ call = "wrapper") =>
           \A i \in 1..Len(heap[cur]) : heap[cur][i] = ZeroBlock
    /\ pc = "Flushing" => FlushedBlocks <= eng.reachBack
    /\ (pc = "Closed" /\ eng.reachBack > 0) =>
           /\ FlushedBlocks = eng.reachBack
           /\ BlocksIn(DataChunks) = Len(input) + eng.reachBack

\* C8 (witness): a run on unsigned PCM input with reach-back is over
C8_Witness ==
    /\ pc = "Closed" /\ eng.reachBack > 0
    /\ eng.readFormat = PCM /\ ~eng.readSigned
    /\ Len(input) > 0
    /\ log.nFlush > 0

\* C9: with reach-back 0 the history queues have capacity 0 and stay empty
\* whatever is recorded; end of input leads straight to closing, the algorithm
\* runs on input buffers only and no block beyond the input's is written.
C9_NoReachBackNoFlush ==
    eng.reachBack = 0 =>
        /\ reachBackDequeLength(eng.reachBack) = 0
        /\ reachBackDeque = << >> /\ bufferLenDeque = << >>
        /\ pc # "Flushing" /\ log.nFlush = 0
        /\ log.eof => pc = "Closed"
        /\ \A k \in 1..Len(log.fed) : log.fed[k][1] = "input"
        /\ log.nInv <= InputBuffers
        /\ BlocksIn(DataChunks) <= Len(input)
        /\ pc = "Closed" => BlocksIn(DataChunks) = Len(input)

\* C9 (witness): a run without reach-back is over after several records
C9_Witness ==
    /\ eng.reachBack = 0 /\ pc = "Closed"
    /\ log.nRec >= 2

\* the phases of process() in their order
Rank(p) ==
    CASE p = "Init" -> 0
      [] p = "HeaderRead" -> 1
      [] p = "Streaming" -> 2
      [] p = "Flushing" -> 3
      [] p = "Closed" -> 4

\* C10 (state part): nothing is read or written before the header; the header
\* is the first thing in the output and the only header; the streams are open
\* exactly while streaming and flushing; once closed, every buffer fed was
\* written, the whole flush included.
C10_PhaseState ==
    /\ pc = "HeaderRead" =>
           outFile = << >> /\ log.nReads = 0 /\ log.nInv = 0 /\ log.nFlush = 0
    /\ Rank(pc) > Rank("HeaderRead") =>
           /\ outFile # << >> /\ outFile[1].kind = "header"
           /\ \A k \in 2..Len(outFile) : outFile[k].kind = "data"
    /\ streams # {} <=> pc \in {"Streaming", "Flushing"}
    /\ pc = "Closed" =>
           /\ call = "none" /\ log.eof /\ readPos = Len(input)
           /\ Len(outFile) = Len(log.fed) + 1
           /\ FlushedBlocks = eng.reachBack

\* C10: process() goes header -> streaming -> flushing -> closed and never
\* back; the header is written once and before any sample data; every read of
\* the input comes before the first flush buffer and none after end of input;
\* the streams are closed only after the last flush buffer is written, and
\* nothing happens after that.
C10_PhaseOrder ==
    /\ []C10_PhaseState
    /\ [][Rank(pc') >= Rank(pc)]_vars
    /\ [][log.nReads' # log.nReads =>
              pc = "Streaming" /\ ~log.eof /\ log.nFlush = 0]_vars
    /\ [][log.nFlush' # log.nFlush =>
              pc = "Flushing" /\ log.eof /\ readPos = Len(input)]_vars
    /\ [][pc = "Closed" => UNCHANGED vars]_vars

\* C10 (witness): a run that streamed and flushed is closed
C10_Witness ==
    /\ pc = "Closed" /\ streams = {}
    /\ InputBuffers >= 1 /\ log.nFlush >= 1

\* ---------------------------------------------------- process() with errors
\* an exception that leaves process() without closing anything
Raise_leaves_open ==
    /\ pc \in {"HeaderRead", "Streaming", "Flushing"}
    /\ pc' = "Raised"
    /\ call' = "none"
    /\ UNCHANGED << eng, algorithm, wrapper, input, readPos, heap, cur,
                    algBlock, reachBackDeque, bufferLenDeque, counter, outFile,
                    streams, stream, log >>

\* open(), write_header, read, unpack, the wrapper with the algorithm and its
\* conversions, repack, write or flush() raises: the exception unwinds the
\* calls and leaves the two `with` blocks of process(), which close the
\* streams they had opened
Raise ==
    /\ pc \in {"HeaderRead", "Streaming", "Flushing"}
    /\ pc' = "Raised"
    /\ call' = "none"
    /\ streams' = {}
    /\ UNCHANGED << eng, algorithm, wrapper, input, readPos, heap, cur,
                    algBlock, reachBackDeque, bufferLenDeque, counter, outFile,
                    stream, log >>

ProcessNext == Next \/ Raise

ProcessSpec == Init /\ [][ProcessNext]_vars

\* C11: when process() has returned, normally or by an exception raised at
\* any point of its run, the input and the output stream are both closed; no
\* state from which process() does nothing more has a stream open.
C11_StreamsClosedOnEveryExit ==
    /\ [](pc \in {"Closed", "Raised"} => streams = {})
    /\ [][(pc \in {"Closed", "Raised"}) => (vars' = vars)]_vars

\* C11 (witness): an exception left the wrapper on a flush buffer, after
\* sample data was written and before that buffer's result was
C11_Witness ==
    /\ pc = "Raised" /\ streams = {}
    /\ log.nFlush >= 1
    /\ Len(outFile) >= 2
    /\ log.nInv = Len(outFile)

\* ------------------------------------------------------ engine construction
\* constants of base_io and wav_io used by the header code
INT32_SIZE == 4
INT24_SIZE == 3
WAV_HEADER_SEARCH_LEN == 100
WAV_CHUNK_SIZE_ADDITION == 4
WAV_SUBCHUNK_HEAD_SIZE == 8
FMT_CHUNK_SIZE_16 == 16
FMT_CHUNK_SIZE_18 == 18
BIN_SEARCH_FAIL == -1
WAV_FMT_PCM == 1
WAV_FMT_FLOAT == 3
WAV_FMT_ALAW == 6
WAV_FMT_EXTENSIBLE == 61183

\* An input file, by what the header code sees of it: its length in bytes, the
\* results of the searches for the five identifiers in its first 100 bytes,
\* and the values of the header fields at their places.
\* The places of a file laid out chunk after chunk from byte 0:
WaveAt == 2 * INT32_SIZE
FmtAt == 3 * INT32_SIZE
FactAt == FmtAt + WAV_SUBCHUNK_HEAD_SIZE + FMT_CHUNK_SIZE_18
DataAt(hasFact) ==
    IF hasFact THEN FactAt + WAV_SUBCHUNK_HEAD_SIZE + INT32_SIZE
    ELSE FmtAt + WAV_SUBCHUNK_HEAD_SIZE + FMT_CHUNK_SIZE_16

\* bytes one sample takes in a file of the given bit depth
ContainerBytes(bitDepth) == (bitDepth + BYTE_SIZE - 1) \div BYTE_SIZE

\* a well-formed file of numBlocks sample blocks
WavFile(audioFormat, bitDepth, hasFact, numBlocks) ==
    LET blockAlign == ContainerBytes(bitDepth) * NumChannels
        dataSize == numBlocks * blockAlign
        headerLen == DataAt(hasFact) + WAV_SUBCHUNK_HEAD_SIZE
    IN  [ size |-> headerLen + dataSize,
          riff |-> 0, wave |-> WaveAt, fmt |-> FmtAt,
          fact |-> IF hasFact THEN FactAt ELSE BIN_SEARCH_FAIL,
          data |-> DataAt(hasFact),
          chunkSize |-> headerLen + dataSize - WAV_SUBCHUNK_HEAD_SIZE,
          audioFormat |-> audioFormat, numChannels |-> NumChannels,
          blockAlign |-> blockAlign, bitDepth |-> bitDepth,
          factSize |-> INT32_SIZE, dwSampleLength |-> numBlocks,
          dataSize |-> dataSize ]

\* the file with the identifiers in `missing` overwritten by other bytes
WithoutIds(file, missing) ==
    [file EXCEPT !.riff = IF "riff" \in missing THEN BIN_SEARCH_FAIL ELSE @,
                 !.wave = IF "wave" \in missing THEN BIN_SEARCH_FAIL ELSE @,
                 !.fmt = IF "fmt" \in missing THEN BIN_SEARCH_FAIL ELSE @,
                 !.fact = IF "fact" \in missing THEN BIN_SEARCH_FAIL ELSE @,
                 !.data = IF "data" \in missing THEN BIN_SEARCH_FAIL ELSE @]

\* the file cut off after its first `size` bytes: an identifier is found
\* when all of it is left
Truncated(file, size) ==
    LET Cut(index) == IF index + INT32_SIZE > size THEN BIN_SEARCH_FAIL ELSE index
    IN  [file EXCEPT !.size = size, !.riff = Cut(@), !.wave = Cut(@),
                     !.fmt = Cut(@), !.fact = Cut(@), !.data = Cut(@)]

\* a file of no bytes: every search fails
EmptyFile ==
    Truncated(WithoutIds(WavFile(WAV_FMT_PCM, INT16_SIZE * BYTE_SIZE, FALSE, 0),
                         {"riff", "wave", "fmt", "fact", "data"}), 0)

\* readStream.read(n) at position pos: the number of bytes returned
read(file, pos, n) ==
    IF n < 0 \/ n > file.size - pos THEN file.size - pos ELSE n

\* BaseRead.__init__
BaseRead == [signalParams |-> << >>, headerLen |-> 0, error |-> "none"]

\* a read_and_assign that counts the read into headerLen before it looks at
\* the bytes
read_and_assign_counts_first(sig, got, readLen, assigned) ==
    IF got = 0 THEN [sig EXCEPT !.error = "ReadFileEmpty", !.headerLen = @ + readLen]
    ELSE [sig EXCEPT !.signalParams = assigned @@ @,
                     !.headerLen = @ + readLen]

\* BaseRead.read_and_assign when the read returned `got` bytes: `assigned` are
\* the keys and values the assignment tuples yield
read_and_assign(sig, got, readLen, assigned) ==
    IF got = 0 THEN [sig EXCEPT !.error = "ReadFileEmpty"]
    ELSE [sig EXCEPT !.signalParams = assigned @@ @,
                     !.headerLen = @ + readLen]

\* Python's `a or b`
PyOr(a, b) == IF a # 0 THEN a ELSE b

\* WavBase.init_struct_fmt_str
init_struct_fmt_str(sig) ==
    LET sp == sig.signalParams
        char == CASE sp.audioFormat = WAV_FMT_PCM /\ sp.byteDepth = INT8_SIZE -> "B"
                  [] sp.audioFormat = WAV_FMT_PCM /\ sp.byteDepth = INT16_SIZE -> "h"
                  [] sp.audioFormat = WAV_FMT_FLOAT /\ sp.byteDepth = FLOAT_SIZE -> "f"
                  [] sp.audioFormat = WAV_FMT_FLOAT /\ sp.byteDepth = DOUBLE_SIZE -> "d"
                  [] OTHER -> "none"
    IN  IF char = "none"
        THEN [sig EXCEPT !.signalParams = ("structMultiplier" :> "") @@ @,
                         !.error = "IncompatibleFileFormat"]
        ELSE [sig EXCEPT !.signalParams =
                  ("structMultiplier" :> "") @@ ("structFmtChar" :> char) @@ @]

\* ReadWav.read_header, first read: the search for the chunk identifiers, the
\* check of the file type and the return to the start of the file
read_header_ids(file, sig) ==
    LET got == read(file, 0, WAV_HEADER_SEARCH_LEN)
        s1 == read_and_assign(sig, got, WAV_HEADER_SEARCH_LEN,
                  [k \in {"riffIdIndex", "waveIdIndex", "fmtIdIndex",
                          "factIdIndex", "dataIdIndex"} |->
                      CASE k = "riffIdIndex" -> file.riff
                        [] k = "waveIdIndex" -> file.wave
                        [] k = "fmtIdIndex" -> file.fmt
                        [] k = "factIdIndex" -> file.fact
                        [] OTHER -> file.data])
        sp == s1.signalParams
    IN  IF s1.error # "none" THEN [sig |-> s1, pos |-> got]
        ELSE IF PyOr(PyOr(PyOr(sp.riffIdIndex, sp.waveIdIndex), sp.fmtIdIndex),
                     sp.dataIdIndex) = BIN_SEARCH_FAIL
        THEN [sig |-> [s1 EXCEPT !.error = "IncompatibleFileFormat"], pos |-> got]
        ELSE [sig |-> [s1 EXCEPT !.headerLen = 0], pos |-> 0]

\* ReadWav.read_header, second read: the RIFF chunk header and the fmt
\* sub-chunk, then the core keys derived from them
read_header_fmt(file, sig, pos) ==
    LET sp == sig.signalParams
        readLen1 == IF sp.factIdIndex = BIN_SEARCH_FAIL THEN sp.dataIdIndex
                    ELSE sp.factIdIndex
        got == read(file, pos, readLen1)
        s1 == read_and_assign(sig, got, readLen1,
                  ("chunkSize" :> file.chunkSize)
                  @@ ("audioFormat" :> file.audioFormat)
                  @@ ("numChannels" :> file.numChannels)
                  @@ ("blockAlign" :> file.blockAlign)
                  @@ ("bitDepth" :> file.bitDepth)
                  @@ ("byteDepth" :> file.bitDepth \div BYTE_SIZE))
        fmtKey == CASE file.audioFormat = WAV_FMT_PCM -> ("signalFormatStr" :> PCM)
                    [] file.audioFormat = WAV_FMT_FLOAT -> ("signalFormatStr" :> FLOAT)
                    [] OTHER -> << >>
        signedKey == "signed" :> ~(file.audioFormat = WAV_FMT_PCM
                                   /\ file.bitDepth \div BYTE_SIZE = INT8_SIZE)
    IN  IF s1.error # "none" THEN [sig |-> s1, pos |-> pos + got]
        ELSE [sig |-> [s1 EXCEPT !.signalParams = signedKey @@ fmtKey @@ @],
              pos |-> pos + got]

\* ReadWav.read_header, third read: the head of the data sub-chunk, behind the
\* fact sub-chunk when there is one, then samplesPerChannel and the struct
\* format string
read_header_data(file, sig, pos) ==
    LET sp == sig.signalParams
        noFact == sp.factIdIndex = BIN_SEARCH_FAIL
        readLen2 == IF noFact THEN WAV_SUBCHUNK_HEAD_SIZE
                    ELSE (sp.dataIdIndex - sp.factIdIndex) + WAV_SUBCHUNK_HEAD_SIZE
        got == read(file, pos, readLen2)
        found == IF pos = file.data /\ got >= INT32_SIZE THEN "data" ELSE "other"
        assigned ==
            IF noFact
            THEN ("subchunk2ID" :> found) @@ ("subchunk2Size" :> file.dataSize)
            ELSE ("subchunk2ID" :> "fact") @@ ("subchunk2Size" :> file.factSize)
                 @@ ("dwSampleLength" :>
                        IF file.factSize = 0 THEN 0 ELSE file.dwSampleLength)
                 @@ ("subchunk3ID" :>
                        IF file.data # BIN_SEARCH_FAIL THEN "data" ELSE "other")
                 @@ ("subchunk3Size" :> file.dataSize)
        s1 == read_and_assign(sig, got, readLen2, assigned)
        p1 == s1.signalParams
        known == \/ "dwSampleLength" \in DOMAIN p1
                 \/ p1.subchunk2ID = "data"
        sampPerChan ==
            IF "dwSampleLength" \in DOMAIN p1 THEN p1.dwSampleLength
            ELSE p1.subchunk2Size \div p1.blockAlign
    IN  IF s1.error # "none" THEN [sig |-> s1, pos |-> pos + got]
        ELSE IF ~known THEN [sig |-> [s1 EXCEPT !.error = "KeyError"], pos |-> pos + got]
        ELSE [sig |-> init_struct_fmt_str(
                         [s1 EXCEPT !.signalParams =
                             ("samplesPerChannel" :> sampPerChan) @@ @]),
              pos |-> pos + got]

\* BaseWrite.__init__
BaseWrite(format, numChannels, bitDepth) ==
    [signalParams |-> ("signalFormatStr" :> format)
                      @@ ("numChannels" :> numChannels)
                      @@ ("bitDepth" :> bitDepth)
                      @@ ("byteDepth" :> bitDepth \div BYTE_SIZE),
     error |-> "none"]

\* math.ceil(samplesPerChannel / (2**32))
factChunkSizeMultiplier(samplesPerChannel) ==
    IF samplesPerChannel = 0 THEN 0
    ELSE ((samplesPerChannel - 1) \div Pow2(16)) \div Pow2(16) + 1

\* a data size that leaves out the samples flush() appends
dataChunkSize_without_reach_back(sp, reachBack) ==
    sp.samplesPerChannel * sp.byteDepth * sp.numChannels

\* WriteWav.init_header: dataChunkSize
dataChunkSize(sp, reachBack) ==
    (sp.samplesPerChannel + reachBack) * sp.byteDepth * sp.numChannels

\* WriteWav.init_header
init_header(out, inputSignal, reachBack) ==
    LET sp0 == out.signalParams
        fmtCode == CASE sp0.signalFormatStr = FLOAT -> ("audioFormat" :> WAV_FMT_FLOAT)
                     [] sp0.signalFormatStr = PCM -> ("audioFormat" :> WAV_FMT_PCM)
                     [] OTHER -> << >>
        sp1 == fmtCode
               @@ ("samplesPerChannel" :> inputSignal.signalParams.samplesPerChannel)
               @@ ("blockAlign" :> sp0.byteDepth * sp0.numChannels)
               @@ sp0
    IN  IF "audioFormat" \notin DOMAIN sp1
        THEN [out EXCEPT !.signalParams = sp1, !.error = "KeyError"]
        ELSE
        LET sp2 == ("signed" :> ~(sp1.audioFormat = WAV_FMT_PCM
                                  /\ sp1.byteDepth = INT8_SIZE)) @@ sp1
            s3 == init_struct_fmt_str([out EXCEPT !.signalParams = sp2])
            chunks ==
                IF sp2.audioFormat = WAV_FMT_PCM /\ sp2.byteDepth <= INT16_SIZE
                THEN ("subchunk1Size" :> FMT_CHUNK_SIZE_16)
                     @@ ("subchunk2ID" :> "data")
                     @@ ("subchunk2Size" :> dataChunkSize(sp2, reachBack))
                ELSE ("subchunk1Size" :> FMT_CHUNK_SIZE_18)
                     @@ ("subchunk2ID" :> "fact")
                     @@ ("subchunk2Size" :> INT32_SIZE
                            * factChunkSizeMultiplier(sp2.samplesPerChannel))
                     @@ ("dwSampleLength" :> sp2.samplesPerChannel + reachBack)
                     @@ ("subchunk3ID" :> "data")
                     @@ ("subchunk3Size" :> dataChunkSize(sp2, reachBack))
            chunkSize ==
                IF chunks.subchunk2ID = "data"
                THEN 2 * WAV_SUBCHUNK_HEAD_SIZE + WAV_CHUNK_SIZE_ADDITION
                     + chunks.subchunk1Size + chunks.subchunk2Size
                ELSE 3 * WAV_SUBCHUNK_HEAD_SIZE + WAV_CHUNK_SIZE_ADDITION
                     + chunks.subchunk1Size + chunks.subchunk2Size
                     + chunks.subchunk3Size
        IN  IF s3.error # "none" THEN s3
            ELSE [s3 EXCEPT !.signalParams =
                     ("chunkSize" :> chunkSize) @@ chunks @@ @]

\* the input files of the construction model: the two layouts init_header
\* writes with identifiers missing, an empty file, files of every format code
\* and bit depth with and without a fact sub-chunk, and files cut short
FormatCodes == {0, WAV_FMT_PCM, WAV_FMT_FLOAT, WAV_FMT_ALAW, WAV_FMT_EXTENSIBLE}
FileBitDepths == {8, 12, 16, 24, 32, 64}
FormatFiles ==
    { WavFile(c, d, hasFact, n) :
        c \in FormatCodes, d \in FileBitDepths, hasFact \in BOOLEAN,
        n \in 0..MaxBlocks }
IdFiles ==
    { WithoutIds(WavFile(f[1], f[2], f[3], MaxBlocks), missing) :
        f \in { << WAV_FMT_PCM, 16, FALSE >>, << WAV_FMT_FLOAT, 32, TRUE >> },
        missing \in SUBSET {"riff", "wave", "fmt", "fact", "data"} }
ShortFiles ==
    { Truncated(WavFile(f[1], f[2], f[3], MaxBlocks), size) :
        f \in { << WAV_FMT_PCM, 16, FALSE >>, << WAV_FMT_FLOAT, 32, TRUE >> },
        size \in {WaveAt, FactAt, DataAt(FALSE), DataAt(TRUE)} }
InputFiles == FormatFiles \cup IdFiles \cup ShortFiles \cup {EmptyFile}

\* the options dictionary the caller passes: a key left out stands for DEFAULT
\* from BaseEngine.__init__ on, until its default replaces it
Option(key, values) == {<< >>} \cup {key :> v : v \in values}
DefaultOptions == << >>
OptionSets ==
    { f @@ d @@ p @@ r :
        f \in Option("outputFormat", {FLOAT, PCM, "other"}),
        d \in Option("outputBitDepth", FileBitDepths),
        p \in Option("pluginFormat", {FLOAT, PCM, "other"}),
        r \in Option("reachBack", 0..MaxReachBack) }

\* options[key] with the default replaced
OptionOr(options, key, default) ==
    IF key \in DOMAIN options THEN options[key] ELSE default

\* FileToFileEngine(inputEntity, outputEntity, algorithm, options) is called
\* with an existing .wav input path and a .wav output path
ConstructInit ==
    /\ input \in InputFiles
    /\ \E options \in OptionSets :
          /\ input \in FormatFiles \/ options = DefaultOptions
          /\ eng = [options |-> options, error |-> "none"]
    /\ algorithm = [kind |-> "default", n |-> 0]
    /\ wrapper = "None"
    /\ readPos = 0
    /\ pc = "Uninitialized"
    /\ call = "none"
    /\ heap = << >>
    /\ cur = 0
    /\ algBlock = 0
    /\ reachBackDeque = << >>
    /\ bufferLenDeque = << >>
    /\ counter = 0
    /\ outFile = << >>
    /\ streams = {}
    /\ stream = << >>
    /\ log = [nInv |-> 0, nRec |-> 0, nReads |-> 0, nFlush |-> 0, eof |-> FALSE,
              fed |-> << >>]

\* one step of read_header inside `with open(inputEntity, 'rb')`: the stream
\* is closed when the step raises or was the last one
HeaderStep(from, to, r, e) ==
    /\ pc = from
    /\ eng' = [e EXCEPT !.inputSignal = r.sig, !.error = r.sig.error]
    /\ readPos' = r.pos
    /\ pc' = IF r.sig.error # "none" THEN "Raised" ELSE to
    /\ streams' = IF r.sig.error # "none" \/ to = "InputRead" THEN {}
                  ELSE {"readStream"}
    /\ UNCHANGED << algorithm, wrapper, input, call, heap, cur, algBlock,
                    reachBackDeque, bufferLenDeque, counter, outFile, stream, log >>

\* BaseEngine.__init__ up to the first read of read_header: PLUGIN_REACH_BACK
\* gets its default, the input object is created and the file opened
ReadIds ==
    LET e == [options |-> ("reachBack" :> OptionOr(eng.options, "reachBack", 0))
                          @@ eng.options,
              inputSignal |-> BaseRead, error |-> "none"]
    IN  /\ pc = "Uninitialized"
        /\ HeaderStep("Uninitialized", "IdsRead", read_header_ids(input, BaseRead), e)

ReadFmt ==
    /\ pc = "IdsRead"
    /\ HeaderStep("IdsRead", "FmtRead",
                  read_header_fmt(input, eng.inputSignal, readPos), eng)

ReadData ==
    /\ pc = "FmtRead"
    /\ HeaderStep("FmtRead", "InputRead",
                  read_header_data(input, eng.inputSignal, readPos), eng)

\* initializeIO after read_header: the defaults of the options are replaced
\* from the input's parameters, the output object is created and its header
\* initialised; then BaseEngine.__init__ copies the format fields
InitOutput ==
    /\ pc = "InputRead"
    /\ LET inp == eng.inputSignal.signalParams
           o == eng.options
           options ==
               [key \in {"pluginFormat", "outputFormat", "outputBitDepth",
                         "reachBack"} |->
                   CASE key \in {"pluginFormat", "outputFormat"} ->
                            OptionOr(o, key, inp.signalFormatStr)
                     [] key = "outputBitDepth" -> OptionOr(o, key, inp.bitDepth)
                     [] OTHER -> o[key]]
           out == init_header(BaseWrite(options.outputFormat, inp.numChannels,
                                        options.outputBitDepth),
                              eng.inputSignal, options.reachBack)
       IN  IF out.error # "none"
           THEN /\ eng' = [eng EXCEPT !.options = options, !.error = out.error]
                           @@ [outputSignal |-> out]
                /\ pc' = "Raised"
           ELSE /\ eng' = [eng EXCEPT !.options = options]
                           @@ [outputSignal |-> out,
                               readFormat |-> inp.signalFormatStr,
                               writeFormat |-> out.signalParams.signalFormatStr,
                               readBitDepth |-> inp.bitDepth,
                               writeBitDepth |-> out.signalParams.bitDepth,
                               readSigned |-> inp.signed,
                               writeSigned |-> out.signalParams.signed,
                               pluginFmt |-> options.pluginFormat]
                /\ pc' = "Init"
    /\ UNCHANGED << algorithm, wrapper, input, readPos, call, heap, cur, algBlock,
                    reachBackDeque, bufferLenDeque, counter, outFile, streams,
                    stream, log >>

\* process() on the constructed engine, up to the first call of
\* self.algorithm_wrapper: the header is written; with sample data to read or
\* a flush to make the wrapper is called, which raises when it is None
ProcessStart ==
    /\ pc = "HeaderRead"
    /\ outFile' = Append(outFile, [kind |-> "header"])
    /\ LET called == \/ eng.inputSignal.headerLen < input.size
                     \/ eng.options.reachBack > 0
       IN  IF ~called THEN pc' = "Closed" /\ eng' = eng /\ streams' = {}
           ELSE IF wrapper = "None"
           THEN /\ pc' = "Raised" /\ eng' = [eng EXCEPT !.error = "TypeError"]
                /\ streams' = {}
           ELSE /\ pc' = "Streaming" /\ eng' = eng
                /\ streams' = {"readStream", "writeStream"}
    /\ UNCHANGED << algorithm, wrapper, input, readPos, call, heap, cur, algBlock,
                    reachBackDeque, bufferLenDeque, counter, stream, log >>

ConstructNext ==
    \/ ReadIds
    \/ ReadFmt
    \/ ReadData
    \/ InitOutput
    \/ SelectWrapper
    \/ ProcessStart

ConstructSpec == ConstructInit /\ [][ConstructNext]_vars

\* the signal objects the engine under construction has so far
Signals ==
    (IF "inputSignal" \in DOMAIN eng THEN {eng.inputSignal} ELSE {})
    \cup (IF "outputSignal" \in DOMAIN eng THEN {eng.outputSignal} ELSE {})

\* the combinations of format and byte depth the WAV classes support
SupportedCombination(sp) ==
    /\ "signalFormatStr" \in DOMAIN sp
    /\ \/ sp.signalFormatStr = PCM /\ sp.byteDepth \in {INT8_SIZE, INT16_SIZE}
       \/ sp.signalFormatStr = FLOAT /\ sp.byteDepth \in {FLOAT_SIZE, DOUBLE_SIZE}

\* header initialisation has got the format and byte depth of the signal
HasCombination(sig) ==
    /\ "byteDepth" \in DOMAIN sig.signalParams
    /\ \/ "structMultiplier" \in DOMAIN sig.signalParams
       \/ "samplesPerChannel" \in DOMAIN sig.signalParams

\* C12: header initialisation (read_header for the input, init_header for the
\* output) completes without error only for PCM of byte depth 1 or 2 and float
\* of byte depth 4 or 8; every other combination of format and byte depth
\* raises IncompatibleFileFormat at header time, before process() has read or
\* written anything.
C12_OnlySupportedCombinationsPass ==
    \A sig \in Signals :
        HasCombination(sig) =>
            /\ sig.error = "none" => SupportedCombination(sig.signalParams)
            /\ ~SupportedCombination(sig.signalParams) =>
                   /\ sig.error = "IncompatibleFileFormat"
                   /\ pc = "Raised" /\ outFile = << >>

\* the identifiers read_header checks that the search did not find
AbsentIds ==
    {id \in {"riff", "wave", "fmt", "data"} : input[id] = BIN_SEARCH_FAIL}

\* C13: read_header raises IncompatibleFileFormat whenever any one of the
\* identifiers 'RIFF', 'WAVE', 'fmt ' and 'data' is absent from the first 100
\* bytes of a file that is not empty, for every combination of the four
\* search results.
C13_AnyAbsentIdRaises ==
    (pc # "Uninitialized" /\ input.size > 0 /\ AbsentIds # {}) =>
        /\ pc = "Raised"
        /\ eng.inputSignal.error = "IncompatibleFileFormat"
        /\ "chunkSize" \notin DOMAIN eng.inputSignal.signalParams

\* the input object before the next read of read_header
InputSignal == IF "inputSignal" \in DOMAIN eng THEN eng.inputSignal ELSE BaseRead

\* the number of bytes the next read_and_assign of read_header asks for
NextReadLen ==
    LET sp == InputSignal.signalParams
    IN  CASE pc = "Uninitialized" -> WAV_HEADER_SEARCH_LEN
          [] pc = "IdsRead" -> IF sp.factIdIndex = BIN_SEARCH_FAIL
                               THEN sp.dataIdIndex ELSE sp.factIdIndex
          [] OTHER -> IF sp.factIdIndex = BIN_SEARCH_FAIL
                      THEN WAV_SUBCHUNK_HEAD_SIZE
                      ELSE (sp.dataIdIndex - sp.factIdIndex) + WAV_SUBCHUNK_HEAD_SIZE

\* the next step is a read_and_assign whose read returns no bytes
ZeroRead ==
    /\ pc \in {"Uninitialized", "IdsRead", "FmtRead"}
    /\ read(input, readPos, NextReadLen) = 0

\* C14: read_and_assign raises ReadFileEmpty when the read returns zero bytes;
\* it then assigns no signalParams key and leaves headerLen as it was, and the
\* error ends the construction of the engine: the stream is closed and nothing
\* is tried again.
C14_EmptyReadRaisesUnchanged ==
    /\ [][ZeroRead =>
             /\ eng'.inputSignal.error = "ReadFileEmpty"
             /\ eng'.inputSignal.signalParams = InputSignal.signalParams
             /\ eng'.inputSignal.headerLen = InputSignal.headerLen
             /\ eng'.error = "ReadFileEmpty"
             /\ pc' = "Raised" /\ streams' = {}]_vars
    /\ [][pc # "Raised"]_vars

\* C14 (witness): the third read of read_header returned no bytes, after the
\* second, of length dataIdIndex = -1, had taken the whole file and assigned
\* its keys
C14_Witness ==
    /\ pc = "Raised"
    /\ eng.error = "ReadFileEmpty"
    /\ "bitDepth" \in DOMAIN eng.inputSignal.signalParams
    /\ "subchunk2ID" \notin DOMAIN eng.inputSignal.signalParams
    /\ eng.inputSignal.headerLen = BIN_SEARCH_FAIL

\* the caller asked for a plugin format that is neither float nor PCM
UnknownPluginFormat ==
    /\ "pluginFormat" \in DOMAIN eng.options
    /\ eng.options.pluginFormat \notin {FLOAT, PCM}

\* C15: a plugin format that is neither float nor PCM is surfaced as an error
\* at the construction of the engine: construction never completes with no
\* wrapper selected, and no output header is written before the failure.
C15_UnknownPluginFormatFailsConstruction ==
    UnknownPluginFormat =>
        /\ ~(pc = "HeaderRead" /\ wrapper = "None")
        /\ outFile = << >>

\* the size of the data sub-chunk in the parameters of a header
DataSubChunkSize(sp) ==
    IF sp.subchunk2ID = "data" THEN sp.subchunk2Size ELSE sp.subchunk3Size

\* the bytes of the header init_header describes that the RIFF chunk size
\* counts: the form type, the fmt sub-chunk, the fact sub-chunk of a float
\* file and the head of the data sub-chunk
HeaderParts(sp) ==
    INT32_SIZE + (WAV_SUBCHUNK_HEAD_SIZE + sp.subchunk1Size)
    + (IF sp.subchunk2ID = "data" THEN 0
       ELSE WAV_SUBCHUNK_HEAD_SIZE + sp.subchunk2Size)
    + WAV_SUBCHUNK_HEAD_SIZE

\* init_header has completed
HeaderInitialised ==
    /\ "outputSignal" \in DOMAIN eng
    /\ eng.outputSignal.error = "none"

\* the output has the format, bit depth and channels of the input
SameFormatCopy ==
    /\ eng.outputSignal.signalParams.signalFormatStr
           = eng.inputSignal.signalParams.signalFormatStr
    /\ eng.outputSignal.signalParams.bitDepth = eng.inputSignal.signalParams.bitDepth
    /\ eng.outputSignal.signalParams.numChannels
           = eng.inputSignal.signalParams.numChannels

\* the bytes the samples take in the input
ReachBackBytes ==
    eng.options.reachBack * eng.inputSignal.signalParams.byteDepth
        * eng.inputSignal.signalParams.numChannels

\* the input's header has the parts init_header gives the output's: a PCM file
\* a 16-byte fmt sub-chunk and no fact sub-chunk, a float file an 18-byte fmt
\* sub-chunk and a fact sub-chunk of the output's size; and its block
\* alignment is byteDepth x numChannels
SameLayout ==
    LET inp == eng.inputSignal.signalParams
        out == eng.outputSignal.signalParams
    IN  /\ inp.blockAlign = inp.byteDepth * inp.numChannels
        /\ IF out.subchunk2ID = "data"
           THEN input.fact = BIN_SEARCH_FAIL /\ input.data = DataAt(FALSE)
           ELSE /\ input.fact = FactAt
                /\ input.data = FactAt + WAV_SUBCHUNK_HEAD_SIZE + out.subchunk2Size

Accepted(sig) ==
    /\ sig.error = "none"
    /\ "structFmtChar" \in DOMAIN sig.signalParams

\* C17: every SignalParams that header initialisation accepts, on the input
\* through read_header and on the output through the writer's constructor and
\* init_header, has byteDepth x 8 = bitDepth; a bit depth that is no multiple
\* of 8 is never accepted with a truncated byte depth.
C17_AcceptedByteDepthIsExact ==
    \A sig \in Signals :
        Accepted(sig) =>
            sig.signalParams.byteDepth * BYTE_SIZE = sig.signalParams.bitDepth

\* ------------------------------------------------------ sample conversions
\* The conversions of enginehelper on nested lists of one sample, at the bit
\* depths 8 and 16 of the documented boundary values.

\* the result of a float computation whose exact value is no binary fraction
\* is a double next to it: below (-1) or above (1); further operations can
\* bring it back onto an exact value (0)
RoundingErrors(v) == IF v.m = 1 THEN {0} ELSE {-1, 0, 1}

\* enginehelper.float_to_pcm, one sample, on the double that stands for v:
\* when the exact product is an integer and the double lies below it, the
\* floor is the integer before it
float_to_pcm_rounded_unsigned_as_signed(v, bitDepth, signed, r) ==
    float_to_pcm_sample(v, bitDepth, TRUE)

float_to_pcm_rounded(v, bitDepth, signed, r) ==
    LET num == IF signed THEN v.n ELSE v.n + Pow2(v.e) * v.m
        exact == float_to_pcm_sample(v, bitDepth, signed)
        g == GCD(Pow2m1(bitDepth), v.m)
        whole == (num * (Pow2m1(bitDepth) \div g)) % (Pow2(v.e + 1) * (v.m \div g)) = 0
    IN  IF r < 0 /\ whole THEN IntV(exact.n - 1) ELSE exact

ConvertDepths == {INT8_SIZE * BYTE_SIZE, INT16_SIZE * BYTE_SIZE}

\* the integers of a PCM format
PcmRange(bitDepth, signed) ==
    IF signed THEN (-Pow2(bitDepth - 1))..Pow2m1(bitDepth - 1)
    ELSE 0..Pow2m1(bitDepth)

\* floats between -1 and 1: the multiples of 1/8
FloatInputs == {FloatV(k, 3, 1) : k \in -8..8}

ConvertInit ==
    /\ eng \in [bitDepth : ConvertDepths, signed : BOOLEAN]
    /\ \/ pc = "FloatGiven" /\ \E v \in FloatInputs : input = << << v >> >>
       \/ pc = "PcmGiven" /\ \E x \in PcmRange(eng.bitDepth, eng.signed) :
                                 input = << << IntV(x) >> >>
    /\ stream = input
    /\ algorithm = [kind |-> "default", n |-> 0]
    /\ wrapper = "None"
    /\ readPos = 0
    /\ call = "none"
    /\ heap = << >>
    /\ cur = 0
    /\ algBlock = 0
    /\ reachBackDeque = << >>
    /\ bufferLenDeque = << >>
    /\ counter = 0
    /\ outFile = << >>
    /\ streams = {}
    /\ log = [nInv |-> 0, nRec |-> 0, nReads |-> 0, nFlush |-> 0, eof |-> FALSE,
              fed |-> << >>]

\* pcm_to_float(sampleNestedList, bitDepth, signed)
PcmToFloat ==
    /\ pc = "PcmGiven"
    /\ input' = pcm_to_float(input, eng.bitDepth, eng.signed)
    /\ pc' = "Float"
    /\ UNCHANGED << eng, algorithm, wrapper, readPos, call, heap, cur, algBlock,
                    reachBackDeque, bufferLenDeque, counter, outFile, streams,
                    stream, log >>

\* float_to_pcm(sampleNestedList, bitDepth, signed)
FloatToPcm ==
    /\ pc \in {"FloatGiven", "Float"}
    /\ \E r \in RoundingErrors(input[1][1]) :
          LET f(v) == float_to_pcm_rounded(v, eng.bitDepth, eng.signed, r)
          IN  input' = MapNest(f, input)
    /\ pc' = IF pc = "Float" THEN "PcmAgain" ELSE "Pcm"
    /\ UNCHANGED << eng, algorithm, wrapper, readPos, call, heap, cur, algBlock,
                    reachBackDeque, bufferLenDeque, counter, outFile, streams,
                    stream, log >>

ConvertNext == PcmToFloat \/ FloatToPcm

ConvertSpec == ConvertInit /\ [][ConvertNext]_vars

\* the floats -1, -1/2, 0, 1/2, 1
BoundaryFloats ==
    << FloatV(-1, 0, 1), FloatV(-1, 1, 1), FloatV(0, 0, 1), FloatV(1, 1, 1),
       FloatV(1, 0, 1) >>

\* the integers of a PCM format that stand for them
PcmBoundaries(d, signed) ==
    IF signed
    THEN << -Pow2(d - 1), -Pow2(d - 2), 0, Pow2(d - 2) - 1, Pow2(d - 1) - 1 >>
    ELSE << 0, Pow2(d - 2) - 1, Pow2(d - 1) - 1, 3 * Pow2(d - 2) - 1, Pow2(d) - 1 >>

\* the sample a conversion was given and the sample it made of it
Given == stream[1][1]
Made == input[1][1]

\* C18: float_to_pcm computes floor(s x (2^bitDepth - 1)/2) for signed and
\* floor((s + 1) x (2^bitDepth - 1)/2) for unsigned output, for each element,
\* so that -1, -1/2, 0, 1/2, 1 become [-32768,-16384,0,16383,32767] (16-bit
\* signed), [0,16383,32767,49151,65535] (16-bit unsigned), [-128,-64,0,63,127]
\* (8-bit signed) and [0,63,127,191,255] (8-bit unsigned).
C18_FloatToPcmIsFloor ==
    /\ PcmBoundaries(16, TRUE) = << -32768, -16384, 0, 16383, 32767 >>
    /\ PcmBoundaries(16, FALSE) = << 0, 16383, 32767, 49151, 65535 >>
    /\ PcmBoundaries(8, TRUE) = << -128, -64, 0, 63, 127 >>
    /\ PcmBoundaries(8, FALSE) = << 0, 63, 127, 191, 255 >>
    /\ pc = "Pcm" =>
           LET s == IF eng.signed THEN Given.n ELSE Given.n + Pow2(Given.e)
               scaled == s * Pow2m1(eng.bitDepth)
               half == Pow2(Given.e + 1)
           IN  /\ IsInt(Made)
               /\ half * Made.n <= scaled
               /\ scaled < half * (Made.n + 1)
               /\ \A i \in 1..5 :
                      Given = BoundaryFloats[i] =>
                          Made.n = PcmBoundaries(eng.bitDepth, eng.signed)[i]

\* C18 (witness): float_to_pcm has made -16384 of -1/2, which times 32767.5 is
\* -16383.75
C18_Witness ==
    /\ pc = "Pcm"
    /\ eng = [bitDepth |-> 16, signed |-> TRUE]
    /\ Given = BoundaryFloats[2]
    /\ Made = IntV(-16384)

\* |v - w| < 1/100 for a float w that is a binary fraction
Close(v, w) ==
    Abs(v.n * Pow2(w.e) - w.n * Pow2(v.e) * v.m) * 100 < Pow2(v.e) * v.m * Pow2(w.e)

\* C19 (as stated): pcm_to_float maps the documented integer boundary values
\* exactly onto -1, -1/2, 0, 1/2, 1 at the bit depths 8 and 16, for signed
\* and for unsigned input.
C19_BoundariesExact ==
    pc = "Float" =>
        \A i \in 1..5 :
            Given = IntV(PcmBoundaries(eng.bitDepth, eng.signed)[i]) =>
                Made = BoundaryFloats[i]

\* C19: at the bit depths 8 and 16 pcm_to_float maps the signed boundary
\* values exactly onto -1, -1/2, 0, 1/2, 1; of the unsigned boundary values it
\* maps 0 and 2^d - 1 exactly onto -1 and 1, and the three between them onto
\* floats that are not -1/2, 0, 1/2 but less than 1/100 away from them.
C19_SignedExactUnsignedClose ==
    pc = "Float" =>
        \A i \in 1..5 :
            Given = IntV(PcmBoundaries(eng.bitDepth, eng.signed)[i]) =>
                /\ IsFloat(Made)
                /\ IF eng.signed \/ i \in {1, 5}
                   THEN Made = BoundaryFloats[i]
                   ELSE Made # BoundaryFloats[i] /\ Close(Made, BoundaryFloats[i])

\* C19 (witness): pcm_to_float has made 32766/65535 - 1 of the unsigned 16-bit
\* sample 16383
C19_Witness ==
    /\ pc = "Float"
    /\ eng = [bitDepth |-> 16, signed |-> FALSE]
    /\ Given = IntV(PcmBoundaries(16, FALSE)[2])
    /\ Made # BoundaryFloats[2]
    /\ Close(Made, BoundaryFloats[2])

\* C20: for every integer x in the range of depth 8 or 16, signed or unsigned,
\* float_to_pcm(pcm_to_float(x, d, signed), d, signed) differs from x by at
\* most 1.
C20_RoundTripWithinOne ==
    pc = "PcmAgain" =>
        /\ IsInt(Made)
        /\ Abs(Made.n - Given.n) <= 1

\* C20 (witness): the round trip has made 4 of the unsigned 8-bit sample 5,
\* whose float 5/127.5 - 1 is no binary fraction
C20_Witness ==
    /\ pc = "PcmAgain"
    /\ eng = [bitDepth |-> 8, signed |-> FALSE]
    /\ Given = IntV(5)
    /\ Made = IntV(4)

\* ---------------------------------------------------------------- clipping
\* clip_pcm and clip_float on nested lists of every shape up to a standard
\* buffer, with values on both sides of each limit.

\* the values given to clip_pcm at a bit depth: ints below, at and above the
\* limits and between them, and floats beside the limits and between them
PcmClipValues(d) ==
    << IntV(-Pow2(d - 1) - 1), IntV(-Pow2(d - 1)), IntV(-1),
       FloatV(-Pow2(d) - 1, 1, 1), IntV(0), FloatV(1, 1, 1),
       IntV(Pow2m1(d - 1)), FloatV(Pow2(d) - 1, 1, 1), IntV(Pow2(d - 1)),
       IntV(Pow2(d)) >>

\* the values given to clip_float: floats below, at and above the limits and
\* between them, and ints
FloatClipValues ==
    << FloatV(-3, 1, 1), FloatV(-1, 0, 1), FloatV(-1, 1, 1), FloatV(0, 0, 1),
       IntV(0), FloatV(1, 1, 1), IntV(1), FloatV(1, 0, 1), FloatV(9, 3, 1),
       IntV(2), IntV(-2) >>

\* the nested list of the given shape that takes the values in turn
ClipNest(values, start, numBlocks, numChannels) ==
    [b \in 1..numBlocks |->
        [c \in 1..numChannels |->
            values[((start + (b - 1) * numChannels + c - 1) % Len(values)) + 1]]]

ClipInit ==
    /\ eng \in [bitDepth : ConvertDepths]
    /\ \E kind \in {"PcmGiven", "FloatGiven"} :
          LET values == IF kind = "PcmGiven" THEN PcmClipValues(eng.bitDepth)
                        ELSE FloatClipValues
          IN  /\ pc = kind
              /\ \E start \in 1..Len(values), numBlocks \in 0..SAMPLES_PER_BUFFER,
                    numChannels \in 1..NumChannels :
                     input = ClipNest(values, start, numBlocks, numChannels)
    /\ stream = input
    /\ algorithm = [kind |-> "default", n |-> 0]
    /\ wrapper = "None"
    /\ readPos = 0
    /\ call = "none"
    /\ heap = << >>
    /\ cur = 0
    /\ algBlock = 0
    /\ reachBackDeque = << >>
    /\ bufferLenDeque = << >>
    /\ counter = 0
    /\ outFile = << >>
    /\ streams = {}
    /\ log = [nInv |-> 0, nRec |-> 0, nReads |-> 0, nFlush |-> 0, eof |-> FALSE,
              fed |-> << >>]

\* clip_pcm(sampleNestedList, bitDepth), on a list as given or already clipped
ClipPcm ==
    /\ pc \in {"PcmGiven", "PcmClipped"}
    /\ input' = clip_pcm(input, eng.bitDepth)
    /\ pc' = IF pc = "PcmGiven" THEN "PcmClipped" ELSE "PcmClippedAgain"
    /\ outFile' = Append(outFile, input)
    /\ UNCHANGED << eng, algorithm, wrapper, readPos, call, heap, cur, algBlock,
                    reachBackDeque, bufferLenDeque, counter, streams, stream, log >>

\* clip_float(sampleNestedList), on a list as given or already clipped
ClipFloat ==
    /\ pc \in {"FloatGiven", "FloatClipped"}
    /\ input' = clip_float(input)
    /\ pc' = IF pc = "FloatGiven" THEN "FloatClipped" ELSE "FloatClippedAgain"
    /\ outFile' = Append(outFile, input)
    /\ UNCHANGED << eng, algorithm, wrapper, readPos, call, heap, cur, algBlock,
                    reachBackDeque, bufferLenDeque, counter, streams, stream, log >>

ClipNext == ClipPcm \/ ClipFloat

ClipSpec == ClipInit /\ [][ClipNext]_vars

\* the list a clip was last applied to, and the list it returned
BeforeClip == outFile[Len(outFile)]
AfterClip == input

SameShape(a, b) ==
    /\ Len(a) = Len(b)
    /\ \A i \in 1..Len(a) : Len(a[i]) = Len(b[i])

\* C21: clip_pcm replaces every value above 2^(bitDepth-1)-1 by that limit and
\* every value below -2^(bitDepth-1) by that limit, leaves every other value
\* and the shape of the list unchanged, takes no signedness into account (the
\* limits are those of the signed range), and a second clip changes nothing.
C21_ClipPcmClipsToSignedRange ==
    pc \in {"PcmClipped", "PcmClippedAgain"} =>
        /\ SameShape(BeforeClip, AfterClip)
        /\ \A b \in 1..Len(BeforeClip) : \A c \in 1..Len(BeforeClip[b]) :
              LET v == BeforeClip[b][c]
                  max == Pow2(eng.bitDepth - 1) - 1
                  min == -Pow2(eng.bitDepth - 1)
              IN  AfterClip[b][c] = IF Greater(v, max) THEN IntV(max)
                                    ELSE IF Less(v, min) THEN IntV(min)
                                    ELSE v
        /\ pc = "PcmClippedAgain" => AfterClip = BeforeClip

\* a list with a value above the limit, one below and one at the lower limit
\* was clipped and then clipped again
C21_Witness ==
    /\ pc = "PcmClippedAgain"
    /\ Len(stream) = SAMPLES_PER_BUFFER
    /\ \E b \in 1..Len(stream) : \E c \in 1..Len(stream[b]) :
          Greater(stream[b][c], Pow2m1(eng.bitDepth - 1))
    /\ \E b \in 1..Len(stream) : \E c \in 1..Len(stream[b]) :
          stream[b][c] = IntV(-Pow2(eng.bitDepth - 1))
    /\ AfterClip # stream

\* C22: clip_float replaces every value above 1.0 by 1.0 and every value
\* below -1.0 by -1.0, and leaves every value in [-1.0, 1.0] and the shape of
\* the list unchanged.
C22_ClipFloatClipsToUnitRange ==
    pc \in {"FloatClipped", "FloatClippedAgain"} =>
        /\ SameShape(BeforeClip, AfterClip)
        /\ \A b \in 1..Len(BeforeClip) : \A c \in 1..Len(BeforeClip[b]) :
              LET v == BeforeClip[b][c]
              IN  AfterClip[b][c] = IF Greater(v, 1) THEN FloatV(1, 0, 1)
                                    ELSE IF Less(v, -1) THEN FloatV(-1, 0, 1)
                                    ELSE v

\* a list with a value above 1.0 and the int 1 was clipped
C22_Witness ==
    /\ pc = "FloatClipped"
    /\ Len(stream) = SAMPLES_PER_BUFFER
    /\ \E b \in 1..Len(stream) : \E c \in 1..Len(stream[b]) :
          Greater(stream[b][c], 1)
    /\ \E b \in 1..Len(stream) : \E c \in 1..Len(stream[b]) :
          /\ stream[b][c] = IntV(1)
          /\ AfterClip[b][c] = IntV(1)

\* ------------------------------------------------------------ copying a file
\* process() on engines whose input, output and plugin formats are the same,
\* over inputs that also hold float samples beyond [-1.0, 1.0] (a float data
\* chunk holds any float; a PCM data chunk only values of its range).
CopyVariants == InputVariants \cup {2 * INT32_SIZE, -2 * INT32_SIZE}

CopyEngines ==
    { e \in Engines : /\ e.readFormat = e.writeFormat
                      /\ e.readFormat = e.pluginFmt
                      /\ e.readBitDepth = e.writeBitDepth }

CopyInit ==
    /\ eng \in CopyEngines
    /\ algorithm \in Algorithms(eng.reachBack)
    /\ wrapper = select_algorithm_wrapper(eng.readFormat, eng.writeFormat,
                     eng.pluginFmt, eng.readBitDepth, eng.writeBitDepth,
                     eng.readSigned, eng.writeSigned)
    /\ \E numBlocks \in 0..MaxBlocks, variant \in CopyVariants :
           input = InputData(ReadParams(eng), variant, numBlocks)
    /\ readPos = 0
    /\ pc = "HeaderRead"
    /\ call = "none"
    /\ heap = << >>
    /\ cur = 0
    /\ algBlock = 0
    /\ reachBackDeque = << >>
    /\ bufferLenDeque = << >>
    /\ counter = 0
    /\ outFile = << >>
    /\ streams = {}
    /\ stream = << >>
    /\ log = [nInv |-> 0, nRec |-> 0, nReads |-> 0, nFlush |-> 0, eof |-> FALSE,
              fed |-> << >>]

CopySpec == CopyInit /\ [][Next]_vars

\* the sample blocks written to the output, in order
RECURSIVE SamplesIn(_)
SamplesIn(chunks) ==
    IF chunks = << >> THEN << >> ELSE Head(chunks).samples \o SamplesIn(Tail(chunks))

\* a finished run of the algorithm that returns its argument, without
\* reach-back, on a format other than unsigned PCM
CopyDone ==
    /\ pc = "Closed"
    /\ algorithm.kind = "default"
    /\ eng.reachBack = 0
    /\ eng.readSigned

InUnitRange(nest) ==
    \A b \in 1..Len(nest) : \A c \in 1..Len(nest[b]) :
        ~Greater(nest[b][c], 1) /\ ~Less(nest[b][c], -1)

\* C23: with the algorithm that returns its argument, reach-back 0 and input
\* format = output format = plugin format, the samples process() writes are
\* the samples of the input, for float and for signed PCM.
C23_CopyIsIdentity ==
    CopyDone => SamplesIn(DataChunks) = input

\* C23 (what holds): the same for signed PCM and for float inputs whose
\* samples all lie in [-1.0, 1.0]
C23_CopyOfUnitRangeIsIdentity ==
    (CopyDone /\ (eng.readFormat = FLOAT => InUnitRange(input))) =>
        SamplesIn(DataChunks) = input

\* ------------------------------------------- what the algorithm is handed
\* the bit depth of the PCM a wrapper hands to the algorithm
ExposureBitDepth(e) ==
    IF e.readFormat = PCM THEN e.readBitDepth
    ELSE IF e.writeFormat = PCM THEN e.writeBitDepth
    ELSE FPF_BIT_DEPTH

\* a sample of the input below the zero of the input format
BelowFormatZero(e, v) ==
    IF e.readFormat = PCM /\ ~e.readSigned
    THEN Less(v, Pow2(e.readBitDepth - 1))
    ELSE IsNegative(v)

\* C24: whatever the input and output formats, every sample handed to the
\* algorithm is a float when the plugin format is float and an integer of the
\* signed PCM range when it is PCM, and a sample read as negative (below
\* mid-range for unsigned PCM) is handed to the algorithm as a negative value.
C24_HandedInPluginFormat ==
    LET fed == BuffersFed(log.nInv)
    IN  \A k \in 1..Len(stream) : \A c \in 1..Len(stream[k]) :
            /\ eng.pluginFmt = FLOAT => IsFloat(stream[k][c])
            /\ eng.pluginFmt = PCM =>
                   /\ IsInt(stream[k][c])
                   /\ stream[k][c].n <= Pow2m1(ExposureBitDepth(eng) - 1)
                   /\ stream[k][c].n >= -Pow2m1(ExposureBitDepth(eng) - 1) - 1
            /\ BelowFormatZero(eng, fed[k][c]) => IsNegative(stream[k][c])

\* unsigned PCM, with samples on both sides of mid-range, was handed to an
\* algorithm that takes PCM
C24_Witness ==
    /\ call = "algorithm"
    /\ wrapper = "wrapper_ppp_unsigned"
    /\ \E k \in 1..Len(stream) : \E c \in 1..Len(stream[k]) :
          /\ BelowFormatZero(eng, BuffersFed(log.nInv)[k][c])
          /\ IsNegative(stream[k][c])
    /\ \E k \in 1..Len(stream) : \E c \in 1..Len(stream[k]) :
          /\ ~BelowFormatZero(eng, BuffersFed(log.nInv)[k][c])
          /\ ~IsNegative(stream[k][c])

\* ------------------------------------------------- the queues on their own
\* update_reachback_deques and reach_back on an engine of reach-back R, for
\* every sequence of recorded buffers of 0..SAMPLES_PER_BUFFER blocks (a
\* wrapper records what it is fed: full buffers, a short last buffer, the
\* buffers of flush(), an empty one among them).
\* `outFile` keeps every buffer recorded so far; `input` the reach_back call
\* made and the value it returned.

\* the buffer recorded after `blocks` blocks: sample values that tell every
\* block and channel recorded so far apart
RecordedBuffer(blocks, len, numChannels) ==
    [i \in 1..len |-> [c \in 1..numChannels |-> IntV(numChannels * (blocks + i) + c)]]

RecordInit ==
    /\ eng \in [reachBack : 0..MaxReachBack, numChannels : {NumChannels}]
    /\ pc = "Recording"
    /\ input = << >>
    /\ outFile = << >>
    /\ stream = << >>
    /\ heap = << >>
    /\ reachBackDeque = << >>
    /\ bufferLenDeque = << >>
    /\ algorithm = [kind |-> "default", n |-> 0]
    /\ wrapper = "None"
    /\ readPos = 0
    /\ call = "none"
    /\ cur = 0
    /\ algBlock = 0
    /\ counter = 0
    /\ streams = {}
    /\ log = [nInv |-> 0, nRec |-> 0, nReads |-> 0, nFlush |-> 0, eof |-> FALSE,
              fed |-> << >>]

\* update_reachback_deques(sampleNestedList)
Record ==
    /\ pc = "Recording"
    /\ log.nRec < MaxBlocks
    /\ \E len \in 0..SAMPLES_PER_BUFFER :
          LET sampleNestedList == RecordedBuffer(Len(stream), len, eng.numChannels)
              u == update_reachback_deques(heap, reachBackDeque, bufferLenDeque,
                       sampleNestedList, 0, log.nRec + 1,
                       reachBackDequeLength(eng.reachBack))
          IN  /\ heap' = Live(u.heap, Range(u.reachBackDeque))
              /\ reachBackDeque' = u.reachBackDeque
              /\ bufferLenDeque' = u.bufferLenDeque
              /\ outFile' = Append(outFile, sampleNestedList)
              /\ stream' = stream \o sampleNestedList
    /\ log' = [log EXCEPT !.nRec = @ + 1]
    /\ UNCHANGED << eng, algorithm, wrapper, input, readPos, pc, call, cur,
                    algBlock, counter, streams >>

\* reach_back(numSamples, currBlock, currChannel) from a block of the latest
\* buffer, not further back than the blocks the length queue counts
ReachBack ==
    /\ pc = "Recording"
    /\ bufferLenDeque # << >>
    /\ \E currBlock \in 0..(bufferLenDeque[Len(bufferLenDeque)] - 1),
          currChannel \in 0..(eng.numChannels - 1) :
          \E numSamples \in 0..(SumSeq(bufferLenDeque)
                                - bufferLenDeque[Len(bufferLenDeque)] + currBlock) :
              input' = [numSamples |-> numSamples, currBlock |-> currBlock,
                        currChannel |-> currChannel,
                        value |-> reach_back(heap, reachBackDeque, bufferLenDeque,
                                             numSamples, currBlock, currChannel)]
    /\ pc' = "Returned"
    /\ UNCHANGED << eng, algorithm, wrapper, readPos, call, heap, cur, algBlock,
                    reachBackDeque, bufferLenDeque, counter, outFile, streams,
                    stream, log >>

RecordNext == Record \/ ReachBack

RecordSpec == RecordInit /\ [][RecordNext]_vars

\* the queued buffers one after the other, oldest first
RECURSIVE Concatenation(_)
Concatenation(buffers) ==
    IF buffers = << >> THEN << >>
    ELSE Head(buffers) \o Concatenation(Tail(buffers))

\* C25: for any queue with a recorded buffer, any block b of the latest buffer
\* and any n from 0 to the number of queued blocks before b, reach_back(n, b, c)
\* returns the channel-c sample n blocks before block b in the concatenation
\* of the queued buffers, and the buffer and the block it indexes exist (no
\* index out of range, none taken from the end), whatever the buffers' lengths.
C25_ReachBackWithinQueue ==
    pc = "Returned" =>
        LET last == bufferLenDeque[Len(bufferLenDeque)]
            f == FindBuffer(bufferLenDeque,
                            input.currBlock - last - input.numSamples, 1)
            at == SumSeq(bufferLenDeque) - last + input.currBlock - input.numSamples
        IN  /\ input.value = Concatenation(History)[at + 1][input.currChannel + 1]
            /\ f[1] >= 1 /\ f[1] <= Len(reachBackDeque)
            /\ f[2] >= 0 /\ f[2] < bufferLenDeque[Len(bufferLenDeque) - f[1] + 1]

\* a call reached from a latest buffer of one block into an older one of more
C25_Witness ==
    /\ pc = "Returned"
    /\ Len(bufferLenDeque) >= 2
    /\ bufferLenDeque[Len(bufferLenDeque)] < bufferLenDeque[Len(bufferLenDeque) - 1]
    /\ input.numSamples > input.currBlock
    /\ input.value = History[Len(History) - 1][1][input.currChannel + 1]

\* the capacity the claim gives for the queues of an engine of reach-back R
Capacity(R) ==
    IF R = 0 THEN 0
    ELSE (R + SAMPLES_PER_BUFFER - 1) \div SAMPLES_PER_BUFFER + 1

\* C27: after any sequence of records on an engine of reach-back R the history
\* queue and the length queue are equally long, at most ceil(R / S) + 1 long
\* (0 for R = 0), the i-th length is the block count of the i-th stored buffer,
\* and the queue holds the latest min(number of records, capacity) buffers in
\* the order recorded.
C27_QueuesHoldLatestBuffers ==
    LET kept == Min(log.nRec, Capacity(eng.reachBack))
    IN  /\ Len(reachBackDeque) = Len(bufferLenDeque)
        /\ Len(reachBackDeque) <= Capacity(eng.reachBack)
        /\ \A i \in 1..Len(bufferLenDeque) : bufferLenDeque[i] = Len(History[i])
        /\ History = SubSeq(outFile, Len(outFile) - kept + 1, Len(outFile))

\* more buffers than the queue takes were recorded, of different lengths
C27_Witness ==
    /\ pc = "Recording"
    /\ eng.reachBack > 0
    /\ log.nRec > Capacity(eng.reachBack)
    /\ Len(reachBackDeque) = Capacity(eng.reachBack)
    /\ outFile[1] # << >>
    /\ \E i \in 1..Len(bufferLenDeque) : bufferLenDeque[i] # bufferLenDeque[1]

\* ------------------------------------------------------ the rounds of flush
\* C26: during flush() with reach-back R > 0 the wrapper is invoked exactly
\* ceil(R / SAMPLES_PER_BUFFER) times and every buffer flush() feeds it has
\* from 1 to SAMPLES_PER_BUFFER blocks, never none.
C26_FlushInvokesCeilTimes ==
    /\ (pc = "Closed" /\ eng.reachBack > 0) =>
           log.nFlush = (eng.reachBack + SAMPLES_PER_BUFFER - 1) \div SAMPLES_PER_BUFFER
    /\ (pc = "Flushing" /\ call # "none") =>
           /\ Len(heap[cur]) >= 1
           /\ Len(heap[cur]) <= SAMPLES_PER_BUFFER

\* C26 (what holds): flush() invokes the wrapper floor(R / S) + 1 times, and
\* the buffer is empty only in the last round of a reach-back that is a
\* multiple of SAMPLES_PER_BUFFER
C26_FlushInvokesFloorPlusOneTimes ==
    /\ (pc = "Closed" /\ eng.reachBack > 0) =>
           log.nFlush = eng.reachBack \div SAMPLES_PER_BUFFER + 1
    /\ (pc = "Flushing" /\ call # "none") =>
           /\ Len(heap[cur]) <= SAMPLES_PER_BUFFER
           /\ Len(heap[cur]) = 0 =>
                  /\ eng.reachBack % SAMPLES_PER_BUFFER = 0
                  /\ counter = eng.reachBack

\* ------------------------------------------- process() on the bytes of a file
\* The engine is constructed on a well-formed file of a supported format that
\* may hold bytes behind the data its header declares (whole sample blocks
\* here; a LIST chunk is such bytes), and process() runs on it.  `input` holds
\* the blocks process() reads: readStream.read(bufferSize) from headerLen on
\* returns data until the end of the file.

\* the file with `bytes` more bytes behind its data sub-chunk
WithTrailing(file, bytes) == [file EXCEPT !.size = @ + bytes]

\* ReadWav.read_header on the file
read_header(file) ==
    LET ids == read_header_ids(file, BaseRead)
        fmt == read_header_fmt(file, ids.sig, ids.pos)
    IN  read_header_data(file, fmt.sig, fmt.pos).sig

FileInit ==
    /\ \E r \in SignalParams, w \in SignalParams, p \in {FLOAT, PCM},
          rb \in 0..MaxReachBack, declared \in 0..MaxBlocks :
       \E trailing \in 0..Min(1, MaxBlocks - declared) :
          LET code == IF r.signalFormatStr = FLOAT THEN WAV_FMT_FLOAT ELSE WAV_FMT_PCM
              wav == WavFile(code, r.bitDepth, r.signalFormatStr = FLOAT, declared)
              file == WithTrailing(wav, trailing * wav.blockAlign)
              inputSignal == read_header(file)
              outputSignal == init_header(
                  BaseWrite(w.signalFormatStr, inputSignal.signalParams.numChannels,
                            w.bitDepth), inputSignal, rb)
              inp == inputSignal.signalParams
              out == outputSignal.signalParams
          IN  /\ eng = [ readFormat |-> inp.signalFormatStr,
                         writeFormat |-> out.signalFormatStr,
                         readBitDepth |-> inp.bitDepth,
                         writeBitDepth |-> out.bitDepth,
                         readSigned |-> inp.signed, writeSigned |-> out.signed,
                         pluginFmt |-> p, reachBack |-> rb,
                         numChannels |-> inp.numChannels,
                         file |-> file, inputSignal |-> inputSignal,
                         outputSignal |-> outputSignal ]
              /\ input = InputData(ReadParams(eng), 1,
                             (file.size - inputSignal.headerLen) \div inp.blockAlign)
    /\ algorithm \in Algorithms(eng.reachBack)
    /\ wrapper = select_algorithm_wrapper(eng.readFormat, eng.writeFormat,
                     eng.pluginFmt, eng.readBitDepth, eng.writeBitDepth,
                     eng.readSigned, eng.writeSigned)
    /\ readPos = 0
    /\ pc = "HeaderRead"
    /\ call = "none"
    /\ heap = << >>
    /\ cur = 0
    /\ algBlock = 0
    /\ reachBackDeque = << >>
    /\ bufferLenDeque = << >>
    /\ counter = 0
    /\ outFile = << >>
    /\ streams = {}
    /\ stream = << >>
    /\ log = [nInv |-> 0, nRec |-> 0, nReads |-> 0, nFlush |-> 0, eof |-> FALSE,
              fed |-> << >>]

FileSpec == FileInit /\ [][Next]_vars

\* the bytes of sample data process() has written behind the output header
DataBytesWritten ==
    BlocksIn(DataChunks) * eng.outputSignal.signalParams.byteDepth
        * eng.outputSignal.signalParams.numChannels

\* C28: for every input file read_header accepts, process() consumes the
\* samplesPerChannel blocks the input header declares, so that the bytes of
\* sample data written behind the output header are as many as the output
\* header's data sub-chunk declares, (samplesPerChannel + reachBack) x output
\* byteDepth x output numChannels; bytes behind the declared data are not
\* decoded.
C28_ConsumesDeclaredBlocks ==
    pc = "Closed" =>
        LET inp == eng.inputSignal.signalParams
            out == eng.outputSignal.signalParams
        IN  /\ readPos = inp.samplesPerChannel
            /\ DataSubChunkSize(out)
                   = (inp.samplesPerChannel + eng.reachBack) * out.byteDepth
                         * out.numChannels
            /\ DataBytesWritten = DataSubChunkSize(out)

\* C28 (what holds): the same for the files that end where their declared
\* data ends
C28_ConsumesToEndOfFile ==
    pc = "Closed" =>
        LET inp == eng.inputSignal.signalParams
            out == eng.outputSignal.signalParams
        IN  /\ readPos = (eng.file.size - eng.inputSignal.headerLen) \div inp.blockAlign
            /\ DataSubChunkSize(out)
                   = (inp.samplesPerChannel + eng.reachBack) * out.byteDepth
                         * out.numChannels
            /\ eng.file.size = eng.inputSignal.headerLen
                                   + inp.samplesPerChannel * inp.blockAlign
                   => DataBytesWritten = DataSubChunkSize(out)

\* ------------------------------------------- what the wrappers hand on
\* The second half of every wrapper on what an algorithm may return: a list of
\* the shape it was given, with numbers inside and outside the range of the
\* plugin format.

\* the values an algorithm returns: around the limits of the float range for a
\* float plugin, around the limits of the PCM range of the exposure bit depth
\* for a PCM plugin (at 32 bits the limits themselves and values between them)
ReturnValues(e) ==
    IF e.pluginFmt = FLOAT THEN FloatClipValues
    ELSE IF ExposureBitDepth(e) = FPF_BIT_DEPTH
    THEN << IntV(-Pow2m1(FPF_BIT_DEPTH - 1) - 1), IntV(-1), IntV(0), IntV(1),
            IntV(Pow2m1(FPF_BIT_DEPTH - 1)) >>
    ELSE PcmClipValues(ExposureBitDepth(e))

ReturnInit ==
    /\ eng \in {e \in Engines : e.reachBack = 0}
    /\ algorithm = [kind |-> "default", n |-> 0]
    /\ wrapper = select_algorithm_wrapper(eng.readFormat, eng.writeFormat,
                     eng.pluginFmt, eng.readBitDepth, eng.writeBitDepth,
                     eng.readSigned, eng.writeSigned)
    /\ \E start \in 1..Len(ReturnValues(eng)), numBlocks \in 0..SAMPLES_PER_BUFFER :
           input = ClipNest(ReturnValues(eng), start, numBlocks, eng.numChannels)
    /\ pc = "AlgorithmReturned"
    /\ stream = << >>
    /\ readPos = 0
    /\ call = "algorithm"
    /\ heap = << >>
    /\ cur = 0
    /\ algBlock = 0
    /\ reachBackDeque = << >>
    /\ bufferLenDeque = << >>
    /\ counter = 0
    /\ outFile = << >>
    /\ streams = {"readStream", "writeStream"}
    /\ log = [nInv |-> 1, nRec |-> 1, nReads |-> 1, nFlush |-> 0, eof |-> FALSE,
              fed |-> << >>]

\* the wrapper from the return of engineObj.algorithm(...) to its own return:
\* the returned list is clipped and converted towards the output format
WrapperPost ==
    /\ pc = "AlgorithmReturned"
    /\ stream' = algorithm_wrapper(wrapper, eng, "post", input)
    /\ pc' = "Repacking"
    /\ call' = "none"
    /\ UNCHANGED << eng, algorithm, wrapper, input, readPos, heap, cur, algBlock,
                    reachBackDeque, bufferLenDeque, counter, outFile, streams, log >>

ReturnNext == WrapperPost

ReturnSpec == ReturnInit /\ [][ReturnNext]_vars

\* a sample in the range of the engine's output format
InOutputRange(e, v) ==
    IF e.writeFormat = FLOAT THEN ~Greater(v, 1) /\ ~Less(v, -1)
    ELSE IF e.writeSigned
    THEN /\ ~Greater(v, Pow2m1(e.writeBitDepth - 1))
         /\ ~Less(v, -Pow2m1(e.writeBitDepth - 1) - 1)
    ELSE ~Greater(v, Pow2m1(e.writeBitDepth)) /\ ~Less(v, 0)

LiveEngines == { e \in CopyEngines : e.readFormat = FLOAT }

LiveInit ==
    /\ eng \in LiveEngines
    /\ algorithm \in Algorithms(eng.reachBack)
    /\ wrapper = select_algorithm_wrapper(eng.readFormat, eng.writeFormat,
                     eng.pluginFmt, eng.readBitDepth, eng.writeBitDepth,
                     eng.readSigned, eng.writeSigned)
    /\ \E numBlocks \in 0..MaxBlocks : input = InputData(ReadParams(eng), 1, numBlocks)
    /\ readPos = 0
    /\ pc = "HeaderRead"
    /\ call = "none"
    /\ heap = << >>
    /\ cur = 0
    /\ algBlock = 0
    /\ reachBackDeque = << >>
    /\ bufferLenDeque = << >>
    /\ counter = 0
    /\ outFile = << >>
    /\ streams = {}
    /\ stream = << >>
    /\ log = [nInv |-> 0, nRec |-> 0, nReads |-> 0, nFlush |-> 0, eof |-> FALSE,
              fed |-> << >>]

LiveSpec == LiveInit /\ [][Next]_vars /\ WF_vars(Next)

\* C30: for every finite input and every reach-back R >= 0 process() comes to
\* its end; the streaming loop is left at the first read that returns nothing
\* (no read follows it), and flush() makes at most R / SAMPLES_PER_BUFFER + 1
\* rounds.
C30_ProcessTerminates ==
    /\ <>(pc = "Closed")
    /\ [](log.eof => pc # "Streaming")
    /\ [][log.eof => log.nReads' = log.nReads]_vars
    /\ []((log.nFlush - 1) * SAMPLES_PER_BUFFER <= eng.reachBack)

\* a run over several input buffers and as many rounds of flush() as the
\* bound allows has come to its end
C30_Witness ==
    /\ pc = "Closed"
    /\ eng.reachBack > 0
    /\ InputBuffers >= 2
    /\ log.nFlush = eng.reachBack \div SAMPLES_PER_BUFFER + 1
    /\ streams = {}
====
